---- MODULE Spec2Model ----
(***************************************************************************)
(* Model of the combinatorial CRC generator crcgen (mbuesch/crcgen).       *)
(*                                                                         *)
(* Python integers are unbounded.  A non-negative integer is modelled as   *)
(* the finite set of the positions of its one bits (0x07 is {0,1,2}), so   *)
(* that 32 and 64 bit registers are represented exactly.  Val and Num      *)
(* convert from and to TLA+ integers for small values.                     *)
(*                                                                         *)
(* XOR objects of the generator are mutable and shared between the bits of *)
(* a Word and between the Words of successive shift steps.  They live in   *)
(* `heap`, a sequence of operand lists indexed by object id; an operand is *)
(* a Bit, a ConstBit or a reference to an XOR object.                      *)
(***************************************************************************)
EXTENDS Integers, Sequences, FiniteSets, TLC

VARIABLES
    pc,           \* position of the program
    args,         \* the command line arguments / constructor parameters
    P,            \* CrcGen.__P
    nrCrcBits,    \* CrcGen.__nrCrcBits
    nrDataBits,   \* CrcGen.__nrDataBits
    shiftRight,   \* CrcGen.__shiftRight
    optimize,     \* CrcGen.__optimize
    backend,      \* the gen* function that rendered the text, "" before
    heap,         \* the XOR objects that exist: operand lists by object id
    word,         \* the items of the Word being worked on, LSB first
    step,         \* number of data bits consumed by the shift register
    err,          \* the exception that ended the program, "" if none
    text,         \* what the last gen* call returned: <<>> or the rendered bits
    entry,        \* who constructed the CrcGen object: "main" or "lib"
    calls,        \* number of calls made on the CrcGen object or the Word
    prev,         \* structure of the Word that the last call found, <<>> if none
    itemNr,       \* number of items the loop of Word.flatten / Word.optimize has done
    crcReg        \* the CRC value passed to and returned by CrcReference.crc

vars == <<pc, args, P, nrCrcBits, nrDataBits, shiftRight, optimize, backend,
          heap, word, step, err, text, entry, calls, prev, itemNr, crcReg>>

----------------------------------------------------------------------------
(* Bounds of the model *)

MaxCrcBits == 3
MaxDataBits == 2
MaxCalls == 2
\* widths of the configurations with more data bits than CRC bits
DeepCrcBits == 2
DeepDataBits == 4
\* longest operand list of an XOR object built directly
MaxOperands == 3
\* widest polynomial converted from and to a string
MaxPolyBits == 8

----------------------------------------------------------------------------
(* Integers as sets of one-bit positions *)

Pow2(k) == IF k <= 0 THEN 1 ELSE 2 ^ k

RECURSIVE Val(_)
Val(s) == IF s = {} THEN 0
          ELSE LET k == CHOOSE k \in s : TRUE IN Pow2(k) + Val(s \ {k})

Num(v) == {k \in 0..30 : (v \div Pow2(k)) % 2 = 1}

\* (v >> k) & 1
BitOf(v, k) == IF k \in v THEN 1 ELSE 0

\* a ^ b
BitXor(a, b) == {k \in a \cup b : ~(k \in a /\ k \in b)}

\* a & b
BitAnd(a, b) == {k \in a : k \in b}

\* a | b
BitOr(a, b) == {k \in a \cup b : TRUE}

\* a << k
Shl(a, k) == {i + k : i \in a}

\* a >> k
Shr(a, k) == {i - k : i \in {j \in a : j >= k}}

\* (1 << n) - 1
Mask(n) == 0..(n - 1)

\* polynomial > ((1 << nrCrcBits) - 1)
ExceedsMask(v, n) == \E k \in v : k >= n

\* the integer written with the given hexadecimal digits, most significant first
Hex(digits) ==
    UNION {Shl(Num(digits[k]), 4 * (Len(digits) - k)) : k \in DOMAIN digits}

----------------------------------------------------------------------------
(* libcrcgen/reference.py *)

RECURSIVE RefLoop(_, _, _, _, _, _, _)
RefLoop(crc, data, polynomial, nrCrcBits_, nrDataBits_, shiftRight_, todo) ==
    IF todo = 0 THEN crc
    ELSE IF shiftRight_
    THEN LET c1 == BitXor(crc, BitAnd(data, {0}))
             d1 == Shr(data, 1)
             c2 == IF 0 \in c1
                   THEN BitAnd(BitXor(Shr(c1, 1), polynomial), Mask(nrCrcBits_))
                   ELSE BitAnd(Shr(c1, 1), Mask(nrCrcBits_))
         IN IF c2 = c2 /\ d1 = d1   \* evaluate the iteration before the next one
            THEN RefLoop(c2, d1, polynomial, nrCrcBits_, nrDataBits_, shiftRight_, todo - 1)
            ELSE {}
    ELSE LET c1 == BitXor(crc, Shl(BitAnd(Shr(data, nrDataBits_ - 1), {0}), nrCrcBits_ - 1))
             d1 == Shl(data, 1)
             c2 == IF (nrCrcBits_ - 1) \in c1
                   THEN BitAnd(BitXor(Shl(c1, 1), polynomial), Mask(nrCrcBits_))
                   ELSE BitAnd(Shl(c1, 1), Mask(nrCrcBits_))
         IN IF c2 = c2 /\ d1 = d1   \* evaluate the iteration before the next one
            THEN RefLoop(c2, d1, polynomial, nrCrcBits_, nrDataBits_, shiftRight_, todo - 1)
            ELSE {}

\* CrcReference.crc
CrcReference_crc(crc, data, polynomial, nrCrcBits_, nrDataBits_, shiftRight_) ==
    IF crc = crc /\ data = data /\ polynomial = polynomial   \* evaluate the arguments
    THEN RefLoop(crc, data, polynomial, nrCrcBits_, nrDataBits_, shiftRight_, nrDataBits_)
    ELSE {}

RECURSIVE crcgen_RefLoop(_, _, _, _, _)
\* the loop "for i in range(8)" on tmp
crcgen_RefLoop(tmp, polynomial, nrBits, shiftRight_, todo) ==
    IF todo = 0 THEN tmp
    ELSE LET t1 == IF shiftRight_
                   THEN (IF 0 \in tmp
                         THEN BitAnd(BitXor(Shr(tmp, 1), polynomial), Mask(nrBits))
                         ELSE BitAnd(Shr(tmp, 1), Mask(nrBits)))
                   ELSE (IF (nrBits - 1) \in tmp
                         THEN BitAnd(BitXor(Shl(tmp, 1), polynomial), Mask(nrBits))
                         ELSE BitAnd(Shl(tmp, 1), Mask(nrBits)))
         IN IF t1 = t1   \* evaluate the iteration before the next one
            THEN crcgen_RefLoop(t1, polynomial, nrBits, shiftRight_, todo - 1)
            ELSE {}

\* mutant: shifting right, the upper bits of the old CRC are not added to the result
crcgen_CrcReference_crc_lowByteOnly(crc, data, polynomial, nrBits, shiftRight_) ==
    IF shiftRight_
    THEN crcgen_RefLoop(BitAnd(BitXor(crc, data), Mask(8)), polynomial, nrBits, TRUE, 8)
    ELSE crcgen_RefLoop(BitAnd(BitXor(crc, Shl(data, nrBits - 8)), Mask(nrBits)),
                        polynomial, nrBits, FALSE, 8)

\* crcgen/reference.py, CrcReference.crc: one data byte, for nrBits >= 8
\* (with a smaller width the left shift by nrBits - 8 raises ValueError)
crcgen_CrcReference_crc(crc, data, polynomial, nrBits, shiftRight_) ==
    IF shiftRight_
    THEN LET tmp == crcgen_RefLoop(BitAnd(BitXor(crc, data), Mask(8)), polynomial, nrBits, TRUE, 8)
         IN BitAnd(BitXor(Shr(crc, 8), tmp), Mask(nrBits))
    ELSE crcgen_RefLoop(BitAnd(BitXor(crc, Shl(data, nrBits - 8)), Mask(nrBits)),
                        polynomial, nrBits, FALSE, 8)

RECURSIVE BlockLoop(_, _, _, _, _, _)
BlockLoop(crc, data, polynomial, nrCrcBits_, nrDataBits_, shiftRight_) ==
    IF data = <<>> THEN crc
    ELSE LET c1 == CrcReference_crc(crc, Head(data), polynomial, nrCrcBits_,
                                    nrDataBits_, shiftRight_)
         IN IF c1 = c1
            THEN BlockLoop(c1, Tail(data), polynomial, nrCrcBits_, nrDataBits_,
                           shiftRight_)
            ELSE {}

\* CrcReference.crcBlock
CrcReference_crcBlock(crc, data, polynomial, nrCrcBits_, nrDataBits_, shiftRight_, preFlip, postFlip) ==
    LET c0 == IF preFlip THEN BitXor(crc, Mask(nrCrcBits_)) ELSE crc
        c1 == BlockLoop(c0, data, polynomial, nrCrcBits_, nrDataBits_, shiftRight_)
    IN IF postFlip THEN BitXor(c1, Mask(nrCrcBits_)) ELSE c1

\* libcrcgen/util.py bitreverse
RECURSIVE bitreverse_loop(_, _, _)
bitreverse_loop(ret, value, n) ==
    IF n = 0 THEN ret
    ELSE LET r1 == BitOr(Shl(ret, 1), BitAnd(value, {0}))
             v1 == Shr(value, 1)
         IN IF r1 = r1 /\ v1 = v1 THEN bitreverse_loop(r1, v1, n - 1) ELSE r1

bitreverse(value, nrBits) == bitreverse_loop({}, value, nrBits)

----------------------------------------------------------------------------
(* libcrcgen/generator.py: the bit expression model *)

\* dataclass Bit(name, index)
Bit(name, index) == [type |-> "Bit", name |-> name, index |-> index]

\* dataclass ConstBit(value)
ConstBit(value) == [type |-> "ConstBit", value |-> value]

\* an operand that is the XOR object `id` of the heap
XORRef(id) == [type |-> "XOR", id |-> id]

\* XOR.__init__: a new object holding the given operands
XOR(h, items) == [heap |-> Append(h, items), item |-> XORRef(Len(h) + 1)]

RECURSIVE flatten(_, _), flatten_items(_, _, _)
\* mutant: AbstractBit.flatten returns the empty list
flatten_leafEmpty(h, item) ==
    IF item.type = "XOR"
    THEN LET r == flatten_items(h, h[item.id], <<>>)
         IN [heap |-> [r.heap EXCEPT ![item.id] = r.items], items |-> r.items]
    ELSE [heap |-> h, items |-> <<>>]

\* mutant: nested objects give their operands as they are, without being flattened
flatten_oneLevel(h, item) ==
    IF item.type = "XOR"
    THEN LET ops == h[item.id]
             RECURSIVE cat(_)
             cat(k) == IF k > Len(ops) THEN <<>>
                       ELSE (IF ops[k].type = "XOR" THEN h[ops[k].id] ELSE <<ops[k]>>) \o cat(k + 1)
         IN [heap |-> [h EXCEPT ![item.id] = cat(1)], items |-> cat(1)]
    ELSE [heap |-> h, items |-> <<item>>]

\* AbstractBit.flatten returns [self]; XOR.flatten flattens its operands,
\* stores the flat list in the object and returns it.
flatten(h, item) ==
    IF item.type = "XOR"
    THEN LET r == flatten_items(h, h[item.id], <<>>)
         IN [heap |-> [r.heap EXCEPT ![item.id] = r.items], items |-> r.items]
    ELSE [heap |-> h, items |-> <<item>>]

\* the list comprehension of XOR.flatten, left to right
\* (the loop is evaluated by halves, in the order of the source)
flatten_items(h, items, acc) ==
    IF items = <<>> THEN [heap |-> h, items |-> acc]
    ELSE IF Len(items) = 1
    THEN LET r == flatten(h, items[1])
         IN [heap |-> r.heap, items |-> acc \o r.items]
    ELSE LET mid == Len(items) \div 2
             r == flatten_items(h, SubSeq(items, 1, mid), acc)
         IN IF r = r
            THEN flatten_items(r.heap, SubSeq(items, mid + 1, Len(items)), r.items)
            ELSE r

\* the characters of the variable names that occur in the model
Chars(name) ==
    CASE name = "crc"    -> <<99, 114, 99>>
      [] name = "data"   -> <<100, 97, 116, 97>>
      [] name = "crcIn"  -> <<99, 114, 99, 73, 110>>
      [] name = "inCrc"  -> <<105, 110, 67, 114, 99>>
      [] name = "in"     -> <<105, 110>>
      [] name = "inData" -> <<105, 110, 68, 97, 116, 97>>
      [] name = "a"      -> <<97>>
      [] name = "b"      -> <<98>>

RECURSIVE DecDigits(_)
\* str(v) for v >= 0
DecDigits(v) ==
    IF v < 10 THEN <<48 + v>> ELSE Append(DecDigits(v \div 10), 48 + (v % 10))

\* f"{index:07}"
ZeroPad7(v) ==
    LET d == DecDigits(v)
    IN IF Len(d) >= 7 THEN d ELSE [k \in 1..(7 - Len(d)) |-> 48] \o d

RECURSIVE sortKey(_, _), sortKey_join(_, _)
\* Bit.sortKey, ConstBit.sortKey, XOR.sortKey: a string, as its code points
sortKey(h, item) ==
    CASE item.type = "Bit" -> Chars(item.name) \o <<95>> \o ZeroPad7(item.index)
      [] item.type = "ConstBit" -> IF item.value # 0 THEN <<49>> ELSE <<48>>
      [] item.type = "XOR" -> sortKey_join(h, h[item.id])

\* "__".join(item.sortKey() for item in self.items)
\* (the loop is evaluated by halves, in the order of the source)
sortKey_join(h, items) ==
    IF items = <<>> THEN <<>>
    ELSE IF Len(items) = 1 THEN sortKey(h, items[1])
    ELSE LET mid == Len(items) \div 2
         IN sortKey_join(h, SubSeq(items, 1, mid)) \o <<95, 95>> \o
            sortKey_join(h, SubSeq(items, mid + 1, Len(items)))

\* a < b for Python strings: decided at the first position where they differ
StrLess(a, b) ==
    LET differ == {k \in DOMAIN a \cap DOMAIN b : a[k] # b[k]}
    IN IF differ = {} THEN Len(a) < Len(b)
       ELSE LET k == CHOOSE k \in differ : \A l \in differ : k <= l
            IN a[k] < b[k]

\* one insertion of the stable sort: e goes behind every entry whose key is not greater
SortInsert(sorted, e) ==
    LET c == Cardinality({k \in DOMAIN sorted : ~StrLess(e.key, sorted[k].key)})
    IN SubSeq(sorted, 1, c) \o <<e>> \o SubSeq(sorted, c + 1, Len(sorted))

RECURSIVE SortLoop(_, _)
\* the insertions in the order of the list (evaluated by halves)
SortLoop(todo, sorted) ==
    IF todo = <<>> THEN sorted
    ELSE IF Len(todo) = 1 THEN SortInsert(sorted, todo[1])
    ELSE LET mid == Len(todo) \div 2
             s1 == SortLoop(SubSeq(todo, 1, mid), sorted)
         IN IF s1 = s1 THEN SortLoop(SubSeq(todo, mid + 1, Len(todo)), s1) ELSE s1

\* mutant: the operands are left in the order of their accumulation
SortItems_unsorted(h, items) == items

\* newItems.sort(key=lambda item: item.sortKey()): list.sort is stable
SortItems(h, items) ==
    LET keyed == [k \in DOMAIN items |-> [key |-> sortKey(h, items[k]), item |-> items[k]]]
        sorted == SortLoop(keyed, <<>>)
    IN [k \in DOMAIN sorted |-> sorted[k].item]

\* how often item occurs in items
Count(items, item) == Cardinality({k \in DOMAIN items : items[k] = item})

\* mutant: the dict haveBits is walked from its last key to its first
haveBits_reversed(items) ==
    LET first(k) == items[k].type = "Bit" /\ \A l \in 1..(k - 1) : items[l] # items[k]
        RECURSIVE keys(_, _)
        keys(lo, hi) == IF lo > hi THEN <<>>
                        ELSE IF lo = hi THEN (IF first(lo) THEN <<items[lo]>> ELSE <<>>)
                        ELSE keys((lo + hi) \div 2 + 1, hi) \o keys(lo, (lo + hi) \div 2)
    IN keys(1, Len(items))

\* the keys of the dict haveBits: the Bits of items in order of first occurrence
haveBits(items) ==
    LET first(k) == items[k].type = "Bit" /\ \A l \in 1..(k - 1) : items[l] # items[k]
        RECURSIVE keys(_, _)
        keys(lo, hi) == IF lo > hi THEN <<>>
                        ELSE IF lo = hi THEN (IF first(lo) THEN <<items[lo]>> ELSE <<>>)
                        ELSE keys(lo, (lo + hi) \div 2) \o keys((lo + hi) \div 2 + 1, hi)
    IN keys(1, Len(items))

IsOther(item) == item.type # "Bit" /\ item.type # "ConstBit"
IsConstOne(item) == item.type = "ConstBit" /\ item.value # 0
IsOdd(n) == n % 2 = 1

\* mutant: every Bit that occurs is kept once, whatever its count
optimize_items_keepAll(h, items, sortLex) ==
    LET others == SelectSeq(items, IsOther)
        bits == haveBits(items)
        constOnes == SelectSeq(items, IsConstOne)
        kept == others \o bits \o
                (IF IsOdd(Len(constOnes)) THEN <<constOnes[1]>> ELSE <<>>)
        newItems == IF sortLex THEN SortItems(h, kept) ELSE kept
    IN IF newItems = <<>> THEN <<ConstBit(0)>> ELSE newItems

\* mutant: an operand list from which everything was removed stays empty
optimize_items_emptyList(h, items, sortLex) ==
    LET others == SelectSeq(items, IsOther)
        unevenBit(b) == IsOdd(Count(items, b))
        bits == SelectSeq(haveBits(items), unevenBit)
        constOnes == SelectSeq(items, IsConstOne)
        kept == others \o bits \o
                (IF IsOdd(Len(constOnes)) THEN <<constOnes[1]>> ELSE <<>>)
    IN IF sortLex THEN SortItems(h, kept) ELSE kept

\* mutant: nested operands are counted and cancelled like Bits
optimize_items_cancelNested(h, items, sortLex) ==
    LET uneven(b) == IsOdd(Count(items, b))
        firstOther(k) == IsOther(items[k]) /\ \A l \in 1..(k - 1) : items[l] # items[k]
        others == SelectSeq([k \in DOMAIN items |-> IF firstOther(k) THEN items[k] ELSE ConstBit(0)],
                            LAMBDA e : IsOther(e) /\ uneven(e))
        bits == SelectSeq(haveBits(items), uneven)
        constOnes == SelectSeq(items, IsConstOne)
        kept == others \o bits \o
                (IF IsOdd(Len(constOnes)) THEN <<constOnes[1]>> ELSE <<>>)
        newItems == IF sortLex THEN SortItems(h, kept) ELSE kept
    IN IF newItems = <<>> THEN <<ConstBit(0)>> ELSE newItems

\* mutant: one constant one is kept whenever there is any
optimize_items_anyOne(h, items, sortLex) ==
    LET others == SelectSeq(items, IsOther)
        unevenBit(b) == IsOdd(Count(items, b))
        bits == SelectSeq(haveBits(items), unevenBit)
        constOnes == SelectSeq(items, IsConstOne)
        kept == others \o bits \o
                (IF constOnes # <<>> THEN <<constOnes[1]>> ELSE <<>>)
        newItems == IF sortLex THEN SortItems(h, kept) ELSE kept
    IN IF newItems = <<>> THEN <<ConstBit(0)>> ELSE newItems

\* XOR.optimize: the new operand list of an object whose operands are items
optimize_items(h, items, sortLex) ==
    LET others == SelectSeq(items, IsOther)
        unevenBit(b) == IsOdd(Count(items, b))
        bits == SelectSeq(haveBits(items), unevenBit)
        constOnes == SelectSeq(items, IsConstOne)
        kept == others \o bits \o
                (IF IsOdd(Len(constOnes)) THEN <<constOnes[1]>> ELSE <<>>)
        newItems == IF sortLex THEN SortItems(h, kept) ELSE kept
    IN IF newItems = <<>> THEN <<ConstBit(0)>> ELSE newItems

\* mutant: an XOR object keeps only the Bits that occur exactly once
optimize_item_dropRepeated(h, item, sortLex) ==
    IF item.type = "XOR"
    THEN LET items == h[item.id]
             single(b) == Count(items, b) = 1
             constOnes == SelectSeq(items, IsConstOne)
             kept == SelectSeq(items, IsOther) \o SelectSeq(haveBits(items), single) \o
                     (IF IsOdd(Len(constOnes)) THEN <<constOnes[1]>> ELSE <<>>)
             newItems == IF sortLex THEN SortItems(h, kept) ELSE kept
         IN [h EXCEPT ![item.id] = IF newItems = <<>> THEN <<ConstBit(0)>> ELSE newItems]
    ELSE h

\* item.optimize(sortLex): AbstractBit.optimize does nothing, XOR.optimize
\* replaces the operand list of the object
optimize_item(h, item, sortLex) ==
    IF item.type = "XOR"
    THEN [h EXCEPT ![item.id] = optimize_items(h, h[item.id], sortLex)]
    ELSE h

RECURSIVE Word_flatten(_, _)
\* mutant: only the first item of the Word is flattened
Word_flatten_firstOnly(h, items) == IF items = <<>> THEN h ELSE flatten(h, items[1]).heap

\* Word.flatten: for item in self.items: item.flatten()
\* (the loop is evaluated by halves, in the order of the source)
Word_flatten(h, items) ==
    IF items = <<>> THEN h
    ELSE IF Len(items) = 1 THEN flatten(h, items[1]).heap
    ELSE LET mid == Len(items) \div 2
             h1 == Word_flatten(h, SubSeq(items, 1, mid))
         IN IF h1 = h1 THEN Word_flatten(h1, SubSeq(items, mid + 1, Len(items))) ELSE h1

RECURSIVE Word_optimize(_, _, _)
\* Word.optimize: for item in self.items: item.optimize(sortLex)
\* (the loop is evaluated by halves, in the order of the source)
Word_optimize(h, items, sortLex) ==
    IF items = <<>> THEN h
    ELSE IF Len(items) = 1 THEN optimize_item(h, items[1], sortLex)
    ELSE LET mid == Len(items) \div 2
             h1 == Word_optimize(h, SubSeq(items, 1, mid), sortLex)
         IN IF h1 = h1
            THEN Word_optimize(h1, SubSeq(items, mid + 1, Len(items)), sortLex)
            ELSE h1

----------------------------------------------------------------------------
(* libcrcgen/generator.py: CrcGen *)

OPT_FLATTEN == 1
OPT_ELIMINATE == 2
OPT_LEX == 4
OPT_NONE == 0
OPT_ALL == OPT_FLATTEN + OPT_ELIMINATE + OPT_LEX

\* opt & flag, for a flag that is a power of two
HasFlag(opt, flag) == (opt \div flag) % 2 = 1

\* the CrcGen object and the variable names of one __gen call
Config(P_, nrCrcBits_, nrDataBits_, shiftRight_, optimize_, dataVarName, crcVarName) ==
    [P |-> P_, nrCrcBits |-> nrCrcBits_, nrDataBits |-> nrDataBits_,
     shiftRight |-> shiftRight_, optimize |-> optimize_,
     dataVarName |-> dataVarName, crcVarName |-> crcVarName]

\* mutant: only the CRC width is checked
genRejects_crcOnly(g) == g.nrCrcBits < 1

\* if nrCrcBits < 1 or nrDataBits < 1: raise CrcGenError("Invalid number of bits.")
genRejects(g) == g.nrCrcBits < 1 \/ g.nrDataBits < 1

\* inData = Word(Bit(dataVarName, i) for i in range(nrDataBits))
inData(g) == [i \in 1..g.nrDataBits |-> Bit(g.dataVarName, i - 1)]

\* mutant: the bits of the CRC word are numbered from one
inCrc_fromOne(g) == [i \in 1..g.nrCrcBits |-> Bit(g.crcVarName, i)]

\* inCrc = Word(Bit(crcVarName, i) for i in range(nrCrcBits))
inCrc(g) == [i \in 1..g.nrCrcBits |-> Bit(g.crcVarName, i - 1)]

\* mutant: the query bit is added at every position
xor_P_always(g, h, dataBit, queryBit, bitNr) == XOR(h, <<dataBit, queryBit>>)

\* mutant: the coefficients of the polynomial are read in reflected order
xor_P_reflected(g, h, dataBit, queryBit, bitNr) ==
    IF BitOf(g.P, g.nrCrcBits - 1 - bitNr) = 1
    THEN XOR(h, <<dataBit, queryBit>>)
    ELSE [heap |-> h, item |-> dataBit]

\* xor_P(dataBit, queryBit, bitNr)
xor_P(g, h, dataBit, queryBit, bitNr) ==
    IF BitOf(g.P, bitNr) = 1
    THEN XOR(h, <<dataBit, queryBit>>)
    ELSE [heap |-> h, item |-> dataBit]

\* mutant: OPT_LEX alone also runs Word.optimize
gen_optimize_lexAlone(g, h, items, sort) ==
    LET h1 == IF HasFlag(g.optimize, OPT_FLATTEN) THEN Word_flatten(h, items) ELSE h
    IN IF h1 = h1 /\ (HasFlag(g.optimize, OPT_ELIMINATE) \/ HasFlag(g.optimize, OPT_LEX))
       THEN Word_optimize(h1, items, sort /\ HasFlag(g.optimize, OPT_LEX))
       ELSE h1

\* mutant: the shift steps flatten only, elimination is left to the final pass
gen_optimize_atEndOnly(g, h, items, sort) ==
    LET h1 == IF HasFlag(g.optimize, OPT_FLATTEN) THEN Word_flatten(h, items) ELSE h
    IN IF h1 = h1 /\ HasFlag(g.optimize, OPT_ELIMINATE) /\ sort
       THEN Word_optimize(h1, items, sort /\ HasFlag(g.optimize, OPT_LEX))
       ELSE h1

\* optimize(word, sort) of __gen: the heap afterwards (the Word keeps its items)
gen_optimize(g, h, items, sort) ==
    LET h1 == IF HasFlag(g.optimize, OPT_FLATTEN) THEN Word_flatten(h, items) ELSE h
    IN IF h1 = h1 /\ HasFlag(g.optimize, OPT_ELIMINATE)
       THEN Word_optimize(h1, items, sort /\ HasFlag(g.optimize, OPT_LEX))
       ELSE h1

\* mutant: a constant one is shifted into the register
shiftBit_shiftsInOne(g, h, w, i, j) ==
    LET stateBit == IF g.shiftRight
                    THEN (IF j < g.nrCrcBits - 1 THEN w[j + 2] ELSE ConstBit(1))
                    ELSE (IF j > 0 THEN w[j] ELSE ConstBit(1))
        q == XOR(h, <<(IF g.shiftRight THEN w[1] ELSE w[g.nrCrcBits]), inData(g)[i + 1]>>)
    IN xor_P(g, q.heap, stateBit, q.item, j)

\* mutant: the query bit is taken from the least significant bit in both directions
shiftBit_queryLsb(g, h, w, i, j) ==
    LET stateBit == IF g.shiftRight
                    THEN (IF j < g.nrCrcBits - 1 THEN w[j + 2] ELSE ConstBit(0))
                    ELSE (IF j > 0 THEN w[j] ELSE ConstBit(0))
        q == XOR(h, <<w[1], inData(g)[i + 1]>>)
    IN xor_P(g, q.heap, stateBit, q.item, j)

\* the body of the loop over j for one position j: [heap, item]
shiftBit(g, h, w, i, j) ==
    LET stateBit == IF g.shiftRight
                    THEN (IF j < g.nrCrcBits - 1 THEN w[j + 2] ELSE ConstBit(0))
                    ELSE (IF j > 0 THEN w[j] ELSE ConstBit(0))
        q == XOR(h, <<(IF g.shiftRight THEN w[1] ELSE w[g.nrCrcBits]), inData(g)[i + 1]>>)
    IN xor_P(g, q.heap, stateBit, q.item, j)

RECURSIVE shiftRange(_, _, _, _, _, _, _)
\* the iterations lo..hi of the loop over j, in ascending order (evaluated by halves)
shiftRange(g, h, w, i, lo, hi, bits) ==
    IF lo > hi THEN [heap |-> h, word |-> bits]
    ELSE IF lo = hi
    THEN LET r == shiftBit(g, h, w, i, lo)
         IN [heap |-> r.heap, word |-> Append(bits, r.item)]
    ELSE LET mid == (lo + hi) \div 2
             r == shiftRange(g, h, w, i, lo, mid, bits)
         IN IF r = r
            THEN shiftRange(g, r.heap, w, i, mid + 1, hi, r.word)
            ELSE r

\* mutant: the loop over j stops one position early
shiftBits_short(g, h, w, i, j, bits) == shiftRange(g, h, w, i, j, g.nrCrcBits - 2, bits)

\* for j in range(nrCrcBits): ... bits.append(stateBit)
shiftBits(g, h, w, i, j, bits) == shiftRange(g, h, w, i, j, g.nrCrcBits - 1, bits)

\* mutant: the data bits are consumed most significant first in both directions
dataIndex_msbFirst(g, k) == g.nrDataBits - 1 - k

\* mutant: the data bits are consumed least significant first in both directions
dataIndex_lsbFirst(g, k) == k

\* the data bit consumed by shift step number k (k = 0 is the first step)
dataIndex(g, k) == IF g.shiftRight THEN k ELSE g.nrDataBits - 1 - k

\* one run of the shift register: word = optimize(Word(*bits))
shiftStep(g, h, w, k) ==
    LET r == shiftBits(g, h, w, dataIndex(g, k), 0, <<>>)
    IN IF r = r THEN [heap |-> gen_optimize(g, r.heap, r.word, FALSE), word |-> r.word]
       ELSE r

\* mutant: the final pass does not ask for sorting
finalOptimize_noSort(g, h, w) == [heap |-> gen_optimize(g, h, w, FALSE), word |-> w]

\* word = optimize(word, sort=True)
finalOptimize(g, h, w) == [heap |-> gen_optimize(g, h, w, TRUE), word |-> w]

RECURSIVE genLoop(_, _, _, _)
genLoop(g, h, w, k) ==
    IF k >= g.nrDataBits THEN finalOptimize(g, h, w)
    ELSE LET r == shiftStep(g, h, w, k)
         IN IF r = r THEN genLoop(g, r.heap, r.word, k + 1) ELSE r

\* CrcGen.__gen for valid widths: [heap, word]
gen(g) == genLoop(g, <<>>, inCrc(g), 0)

----------------------------------------------------------------------------
(* crcgen/generator.py: the historical generator.  Its Bit, ConstBit, XOR and
   Word classes and its shift loops are those of libcrcgen; its __gen
   simplifies the Word once, after the last shift step. *)

RECURSIVE crcgen_shiftLoop(_, _, _, _)
\* the loops over the data bits: word = Word(*bits), no simplification
crcgen_shiftLoop(g, h, w, k) ==
    IF k >= g.nrDataBits THEN [heap |-> h, word |-> w]
    ELSE LET r == shiftBits(g, h, w, dataIndex(g, k), 0, <<>>)
         IN IF r = r THEN crcgen_shiftLoop(g, r.heap, r.word, k + 1) ELSE r

\* outCrc.flatten() and outCrc.optimize(sortLex=bool(optimize & OPT_LEX))
crcgen_optimize(g, h, items) ==
    LET h1 == IF HasFlag(g.optimize, OPT_FLATTEN) THEN Word_flatten(h, items) ELSE h
    IN IF h1 = h1 /\ HasFlag(g.optimize, OPT_ELIMINATE)
       THEN Word_optimize(h1, items, HasFlag(g.optimize, OPT_LEX))
       ELSE h1

\* crcgen CrcGen.__gen for valid widths: [heap, word]
crcgen_gen(g) ==
    LET r == crcgen_shiftLoop(g, <<>>, inCrc(g), 0)
    IN [heap |-> crcgen_optimize(g, r.heap, r.word), word |-> r.word]

----------------------------------------------------------------------------
(* Structure and value of expressions *)

RECURSIVE Tree(_, _)
\* the expression below an operand, with XOR objects replaced by their operands
Tree(h, item) ==
    IF item.type = "XOR"
    THEN [type |-> "XOR", items |-> [k \in DOMAIN h[item.id] |-> Tree(h, h[item.id][k])]]
    ELSE item

RECURSIVE BitsOf(_, _)
\* the Bits that occur in the expression below an operand
BitsOf(h, item) ==
    CASE item.type = "Bit" -> {item}
      [] item.type = "ConstBit" -> {}
      [] item.type = "XOR" -> UNION {BitsOf(h, h[item.id][k]) : k \in DOMAIN h[item.id]}

\* the Bits that occur in a Word
WordBits(h, items) == UNION {BitsOf(h, items[k]) : k \in DOMAIN items}

\* the structure of a Word
WordTree(h, items) == [k \in DOMAIN items |-> Tree(h, items[k])]

RECURSIVE EvalItem(_, _, _)
\* the value (0 or 1) of the rendered expression of an operand; env gives
\* the integer bound to each variable name
EvalItem(h, item, env) ==
    CASE item.type = "Bit" -> BitOf(env[item.name], item.index)
      [] item.type = "ConstBit" -> IF item.value # 0 THEN 1 ELSE 0
      [] item.type = "XOR" ->
            Cardinality({k \in DOMAIN h[item.id] : EvalItem(h, h[item.id][k], env) = 1}) % 2

\* the tree of an XOR object with the given operand trees
XorTree(items) == [type |-> "XOR", items |-> items]

RECURSIVE TreeLeaves(_)
\* the Bits and ConstBits of an expression given as a tree, from left to right
TreeLeaves(t) ==
    IF t.type = "XOR"
    THEN LET RECURSIVE cat(_)
             cat(k) == IF k > Len(t.items) THEN <<>> ELSE TreeLeaves(t.items[k]) \o cat(k + 1)
         IN cat(1)
    ELSE <<t>>

RECURSIVE EvalTree(_, _)
\* the value (0 or 1) of an expression given as a tree
EvalTree(t, env) ==
    CASE t.type = "Bit" -> BitOf(env[t.name], t.index)
      [] t.type = "ConstBit" -> IF t.value # 0 THEN 1 ELSE 0
      [] t.type = "XOR" ->
            Cardinality({k \in DOMAIN t.items : EvalTree(t.items[k], env) = 1}) % 2

\* the integer computed by the generated function: bit i is the value of word[i]
EvalWord(h, items, env) == {k \in 0..(Len(items) - 1) : EvalItem(h, items[k + 1], env) = 1}

\* the generated function called with (crc, data)
EvalGen(g, h, items, crc, data) ==
    EvalWord(h, items, (g.crcVarName :> crc) @@ (g.dataVarName :> data))

----------------------------------------------------------------------------
(* libcrcgen/util.py: poly2int and int2poly.  Strings are sequences of code
   points over the letters x and X, the digits, a..f, "^", "+" and blank. *)

\* str.lower() for ASCII
lower(str) == [k \in DOMAIN str |-> IF str[k] \in 65..90 THEN str[k] + 32 ELSE str[k]]

IsSpace(c) == c \in {32, 9, 10, 11, 12, 13}
IsDigit(c) == c \in 48..57

RECURSIVE lstrip(_)
lstrip(str) == IF str # <<>> /\ IsSpace(Head(str)) THEN lstrip(Tail(str)) ELSE str

RECURSIVE rstrip(_)
rstrip(str) ==
    IF str # <<>> /\ IsSpace(str[Len(str)]) THEN rstrip(SubSeq(str, 1, Len(str) - 1)) ELSE str

\* str.strip()
strip(str) == rstrip(lstrip(str))

\* re.subn(r"\s+", "", str)
removeSpace(str) == SelectSeq(str, LAMBDA c : ~IsSpace(c))

RECURSIVE split(_, _, _)
\* str.split("+"): cur is the piece being collected
split(str, sep, cur) ==
    IF str = <<>> THEN <<cur>>
    ELSE IF Head(str) = sep THEN <<cur>> \o split(Tail(str), sep, <<>>)
    ELSE split(Tail(str), sep, Append(cur, Head(str)))

RECURSIVE DigitsValue(_, _, _)
\* the number written by digits in the given base, most significant first
DigitsValue(digits, base, acc) ==
    IF digits = <<>> THEN acc
    ELSE LET c == Head(digits)
             d == IF IsDigit(c) THEN c - 48 ELSE c - 87
         IN DigitsValue(Tail(digits), base, acc * base + d)

\* int(str, 10) for a stripped string: an optional "+" and decimal digits;
\* anything else raises ValueError
ParseDec(str) ==
    LET digits == IF str # <<>> /\ Head(str) = 43 THEN Tail(str) ELSE str
    IN IF digits # <<>> /\ \A k \in DOMAIN digits : IsDigit(digits[k])
       THEN [ok |-> TRUE, value |-> DigitsValue(digits, 10, 0)]
       ELSE [ok |-> FALSE, value |-> 0]

\* int(str, 16) for a lower case string: blanks around it are ignored, then
\* an optional "+", an optional "0x" and hexadecimal digits
ParseHex(str) ==
    LET bare == strip(str)
        unsigned == IF bare # <<>> /\ Head(bare) = 43 THEN Tail(bare) ELSE bare
        digits == IF Len(unsigned) >= 2 /\ unsigned[1] = 48 /\ unsigned[2] = 120
                  THEN SubSeq(unsigned, 3, Len(unsigned)) ELSE unsigned
    IN IF digits # <<>> /\ \A k \in DOMAIN digits : IsDigit(digits[k]) \/ digits[k] \in 97..102
       THEN [ok |-> TRUE, value |-> DigitsValue(digits, 16, 0)]
       ELSE [ok |-> FALSE, value |-> 0]

\* one piece of the coefficient format: the exponent of "x^e", "x" or "1"
ParseTerm(bit) ==
    IF Len(bit) >= 2 /\ bit[1] = 120 /\ bit[2] = 94
    THEN LET e == SubSeq(bit, 3, Len(bit))
         IN IF e # <<>> /\ \A k \in DOMAIN e : IsDigit(e[k])
            THEN [ok |-> TRUE, value |-> DigitsValue(e, 10, 0)]
            ELSE [ok |-> FALSE, value |-> 0]
    ELSE IF bit = <<120>> THEN [ok |-> TRUE, value |-> 1]
    ELSE IF bit = <<49>> THEN [ok |-> TRUE, value |-> 0]
    ELSE [ok |-> FALSE, value |-> 0]

\* the loop over polyString.split("+"): poly |= 1 << exponent
ParseTerms(str) ==
    LET bits == split(removeSpace(str), 43, <<>>)
    IN IF \A k \in DOMAIN bits : ParseTerm(bits[k]).ok
       THEN [ok |-> TRUE, value |-> {ParseTerm(bits[k]).value : k \in DOMAIN bits}]
       ELSE [ok |-> FALSE, value |-> {}]

\* mutant: the value is not cut to nrBits bits
poly2int_noMask(polyString, nrBits, shiftRight_) ==
    LET str == strip(lower(polyString))
        parsed == IF Len(str) >= 2 /\ str[1] = 48 /\ str[2] = 120
                  THEN LET r == ParseHex(SubSeq(str, 3, Len(str)))
                       IN [ok |-> r.ok, value |-> Num(r.value)]
                  ELSE IF ParseDec(str).ok
                  THEN [ok |-> TRUE, value |-> Num(ParseDec(str).value)]
                  ELSE ParseTerms(str)
    IN [ok |-> parsed.ok,
        value |-> IF ~parsed.ok THEN {}
                  ELSE IF shiftRight_ THEN bitreverse(parsed.value, nrBits) ELSE parsed.value]

\* poly2int: [ok, value]; ok is FALSE where the code raises ValueError
poly2int(polyString, nrBits, shiftRight_) ==
    LET str == strip(lower(polyString))
        parsed == IF Len(str) >= 2 /\ str[1] = 48 /\ str[2] = 120
                  THEN LET r == ParseHex(SubSeq(str, 3, Len(str)))
                       IN [ok |-> r.ok, value |-> Num(r.value)]
                  ELSE IF ParseDec(str).ok
                  THEN [ok |-> TRUE, value |-> Num(ParseDec(str).value)]
                  ELSE ParseTerms(str)
        poly == BitAnd(parsed.value, Mask(nrBits))
    IN [ok |-> parsed.ok,
        value |-> IF ~parsed.ok THEN {}
                  ELSE IF shiftRight_ THEN bitreverse(poly, nrBits) ELSE poly]

RECURSIVE int2poly_loop(_, _, _)
\* the while loop of int2poly: the list p
int2poly_loop(poly, shift, p) ==
    IF poly = {} THEN p
    ELSE LET p1 == IF 0 \in poly
                   THEN Append(p, IF shift = 0 THEN <<49>>
                                  ELSE IF shift = 1 THEN <<120>>
                                  ELSE <<120, 94>> \o DecDigits(shift))
                   ELSE p
         IN IF p1 = p1 THEN int2poly_loop(Shr(poly, 1), shift + 1, p1) ELSE p1

RECURSIVE joinReversed(_)
\* " + ".join(reversed(p))
joinReversed(p) ==
    IF Len(p) = 1 THEN p[1]
    ELSE p[Len(p)] \o <<32, 43, 32>> \o joinReversed(SubSeq(p, 1, Len(p) - 1))

\* mutant: the polynomial of a right shifting CRC is not reversed
int2poly_notReversed(poly, nrBits, shiftRight_) ==
    joinReversed(Append(int2poly_loop(BitAnd(poly, Mask(nrBits)), 0, <<>>),
                        <<120, 94>> \o DecDigits(nrBits)))

\* int2poly
int2poly(poly, nrBits, shiftRight_) ==
    LET masked == BitAnd(poly, Mask(nrBits))
        q == IF shiftRight_ THEN bitreverse(masked, nrBits) ELSE masked
    IN joinReversed(Append(int2poly_loop(q, 0, <<>>), <<120, 94>> \o DecDigits(nrBits)))

----------------------------------------------------------------------------
(* libcrcgen/generator.py: rendering.  A string is the sequence of its code
   points; the text of a gen* function is modelled by the expressions it
   renders, one per bit of the Word. *)

Backends == {"python", "c", "verilog", "vhdl", "myhdl"}

\* Bit.gen_python, gen_c, gen_verilog, gen_vhdl, gen_myhdl
Bit_gen(lang, item) ==
    CASE lang = "c" ->
            <<98, 40>> \o Chars(item.name) \o <<44, 32>> \o DecDigits(item.index) \o <<41>>
      [] lang = "vhdl" ->
            Chars(item.name) \o <<40>> \o DecDigits(item.index) \o <<41>>
      [] OTHER ->
            Chars(item.name) \o <<91>> \o DecDigits(item.index) \o <<93>>

\* ConstBit.gen_python, gen_c, gen_verilog, gen_vhdl, gen_myhdl
ConstBit_gen(lang, item) ==
    LET d == IF item.value # 0 THEN 49 ELSE 48
    IN CASE lang = "c" -> <<d, 117>>
         [] lang = "verilog" -> <<49, 39, 98, d>>
         [] lang = "vhdl" -> <<98, 34, d, 34>>
         [] OTHER -> <<d>>

\* the operator between the operands of an XOR
Oper(lang) == IF lang = "vhdl" THEN <<32, 120, 111, 114, 32>> ELSE <<32, 94, 32>>

RECURSIVE EmptyXOR(_, _)
\* assert(self.items) of XOR.__gen fails somewhere below the operand
EmptyXOR(h, item) ==
    item.type = "XOR" /\
    (h[item.id] = <<>> \/ \E k \in DOMAIN h[item.id] : EmptyXOR(h, h[item.id][k]))

RECURSIVE item_gen(_, _, _), XOR_gen_join(_, _, _)
\* item.gen_python() etc.
item_gen(lang, h, item) ==
    CASE item.type = "Bit" -> Bit_gen(lang, item)
      [] item.type = "ConstBit" -> ConstBit_gen(lang, item)
      [] item.type = "XOR" -> <<40>> \o XOR_gen_join(lang, h, h[item.id]) \o <<41>>

\* oper.join(itemGen(item) for item in self.items)
\* (the loop is evaluated by halves, in the order of the source)
XOR_gen_join(lang, h, items) ==
    IF items = <<>> THEN <<>>
    ELSE IF Len(items) = 1 THEN item_gen(lang, h, items[1])
    ELSE LET mid == Len(items) \div 2
         IN XOR_gen_join(lang, h, SubSeq(items, 1, mid)) \o Oper(lang) \o
            XOR_gen_join(lang, h, SubSeq(items, mid + 1, Len(items)))

\* the expressions rendered by "for i, bit in enumerate(word)"
RenderWord(lang, h, items) == [k \in DOMAIN items |-> item_gen(lang, h, items[k])]

\* mutant: the widest C type has 32 bits
CTypeTooWide_32(nrBits) == nrBits > 32

\* makeCType of genC raises for more than 64 bits
CTypeTooWide(nrBits) == nrBits > 64

----------------------------------------------------------------------------
(* libcrcgen/parameters.py *)

Algorithms ==
    {"CRC-64-ECMA", "CRC-64-ISO", "CRC-32", "CRC-16", "CRC-16-CCITT",
     "CRC-8-CCITT", "CRC-8-IBUTTON", "CRC-6-ITU"}

CRC_PARAMETERS(algorithm) ==
    CASE algorithm = "CRC-64-ECMA" ->
            [polynomial |-> Hex(<<12, 9, 6, 12, 5, 7, 9, 5, 13, 7, 8, 7, 0, 15, 4, 2>>),
             nrBits |-> 64, shiftRight |-> TRUE]
      [] algorithm = "CRC-64-ISO" ->
            [polynomial |-> Hex(<<13, 8, 0, 0, 0, 0, 0, 0, 0, 0, 0, 0, 0, 0, 0, 0>>),
             nrBits |-> 64, shiftRight |-> TRUE]
      [] algorithm = "CRC-32" ->
            [polynomial |-> Hex(<<14, 13, 11, 8, 8, 3, 2, 0>>),
             nrBits |-> 32, shiftRight |-> TRUE]
      [] algorithm = "CRC-16" ->
            [polynomial |-> Hex(<<10, 0, 0, 1>>), nrBits |-> 16, shiftRight |-> TRUE]
      [] algorithm = "CRC-16-CCITT" ->
            [polynomial |-> Hex(<<1, 0, 2, 1>>), nrBits |-> 16, shiftRight |-> FALSE]
      [] algorithm = "CRC-8-CCITT" ->
            [polynomial |-> Hex(<<0, 7>>), nrBits |-> 8, shiftRight |-> FALSE]
      [] algorithm = "CRC-8-IBUTTON" ->
            [polynomial |-> Hex(<<8, 12>>), nrBits |-> 8, shiftRight |-> TRUE]
      [] algorithm = "CRC-6-ITU" ->
            [polynomial |-> Hex(<<0, 3>>), nrBits |-> 6, shiftRight |-> FALSE]

----------------------------------------------------------------------------
(* libcrcgen/main.py.  An optional argument is <<>> (None) or <<value>>. *)

\* crcParameters after the overrides by -B, -R, -L and -P
crcParameters(a) ==
    LET preset == CRC_PARAMETERS(a.algorithm)
        nrBits == IF a.nr_crc_bits # <<>> THEN a.nr_crc_bits[1] ELSE preset.nrBits
        sr == IF a.shift_left THEN FALSE
              ELSE IF a.shift_right THEN TRUE
              ELSE preset.shiftRight
        poly == IF a.polynomial # <<>> THEN a.polynomial[1] ELSE preset.polynomial
    IN [polynomial |-> poly, nrBits |-> nrBits, shiftRight |-> sr]

\* the checks of main that raise CrcGenError before CrcGen is constructed
mainRejects(a) ==
    \/ a.nr_crc_bits # <<>> /\ a.nr_crc_bits[1] < 1
    \/ a.nr_data_bits < 1
    \/ ExceedsMask(crcParameters(a).polynomial, crcParameters(a).nrBits)

----------------------------------------------------------------------------
(* The program *)

\* the CrcGen object of the current state
Gen == Config(P, nrCrcBits, nrDataBits, shiftRight, optimize,
              args.data_param, args.crc_in_param)

NamePairs == {<<"data", "crc">>, <<"a", "b">>}

OptValues == 0..OPT_ALL

\* the polynomials that fit n bits, and two that do not: 2^n and 2^(n+1) - 1
Polynomials(n) == SUBSET (0..(n - 1)) \cup {{n}, 0..n}

\* arguments with explicit widths and polynomial, within the bounds
SmallArgs ==
    {[algorithm |-> "CRC-32", polynomial |-> <<p>>, nr_crc_bits |-> <<n>>,
      nr_data_bits |-> m, shift_right |-> sr, shift_left |-> ~sr, optimize |-> o,
      data_param |-> np[1], crc_in_param |-> np[2]] :
        n \in 0..MaxCrcBits, m \in 0..MaxDataBits, p \in Polynomials(MaxCrcBits),
        sr \in BOOLEAN, o \in OptValues, np \in NamePairs}

InitWith(a) ==
    /\ pc = "start"
    /\ args = a
    /\ P = {}
    /\ nrCrcBits = 0
    /\ nrDataBits = 0
    /\ shiftRight = FALSE
    /\ optimize = 0
    /\ backend = ""
    /\ heap = <<>>
    /\ word = <<>>
    /\ step = 0
    /\ err = ""
    /\ text = <<>>
    /\ entry = ""
    /\ calls = 0
    /\ prev = <<>>
    /\ itemNr = 0
    /\ crcReg = {}

Init ==
    \E a \in SmallArgs :
        a.polynomial[1] \in Polynomials(a.nr_crc_bits[1]) /\ InitWith(a)

\* main() up to the construction of CrcGen
Main ==
    /\ pc = "start"
    /\ entry' = "main"
    /\ IF mainRejects(args)
       THEN /\ pc' = "failed"
            /\ err' = "CrcGenError"
            /\ UNCHANGED <<P, nrCrcBits, nrDataBits, shiftRight, optimize>>
       ELSE /\ pc' = "constructed"
            /\ P' = crcParameters(args).polynomial
            /\ nrCrcBits' = crcParameters(args).nrBits
            /\ nrDataBits' = args.nr_data_bits
            /\ shiftRight' = crcParameters(args).shiftRight
            /\ optimize' = args.optimize
            /\ err' = ""
    /\ UNCHANGED <<itemNr, crcReg, args, backend, heap, word, step, text, calls, prev>>

\* CrcGen.__init__ called by a user of the library with the same parameters
\* (explicit ones or an entry of CRC_PARAMETERS): nothing is checked
Construct ==
    /\ pc = "start"
    /\ entry' = "lib"
    /\ pc' = "constructed"
    /\ P' = crcParameters(args).polynomial
    /\ nrCrcBits' = crcParameters(args).nrBits
    /\ nrDataBits' = args.nr_data_bits
    /\ shiftRight' = crcParameters(args).shiftRight
    /\ optimize' = args.optimize
    /\ UNCHANGED <<itemNr, crcReg, args, backend, heap, word, step, err, text, calls, prev>>

\* The first statement of genPython, genC, genVerilog, genVHDL and genMyHDL,
\* word = self.__gen(...): __gen checks the widths and constructs the input
\* words.  Nothing in __gen depends on which of the five was called.
GenCall ==
    /\ pc \in {"constructed", "done"}
    /\ calls < MaxCalls
    /\ calls' = calls + 1
    /\ backend' = ""
    /\ text' = <<>>
    /\ prev' = IF pc = "done" THEN WordTree(heap, word) ELSE prev
    /\ IF genRejects(Gen)
       THEN /\ pc' = "failed"
            /\ err' = "CrcGenError"
            /\ heap' = <<>>
            /\ word' = <<>>
            /\ step' = 0
       ELSE /\ pc' = "unroll"
            /\ err' = ""
            /\ heap' = <<>>
            /\ word' = inCrc(Gen)
            /\ step' = 0
    /\ UNCHANGED <<itemNr, crcReg, args, P, nrCrcBits, nrDataBits, shiftRight, optimize, entry>>

\* one iteration of the loop over the data bits
ShiftStep ==
    /\ pc = "unroll"
    /\ step < nrDataBits
    /\ LET r == shiftStep(Gen, heap, word, step)
       IN heap' = r.heap /\ word' = r.word
    /\ step' = step + 1
    /\ UNCHANGED <<itemNr, crcReg, pc, args, P, nrCrcBits, nrDataBits, shiftRight, optimize, backend,
                   err, text, entry, calls, prev>>

\* mutant: the final pass switches the OPT_LEX flag of the object off
FinalOptimize_clearsLex ==
    /\ pc = "unroll"
    /\ step = nrDataBits
    /\ LET r == finalOptimize(Gen, heap, word)
       IN heap' = r.heap /\ word' = r.word
    /\ pc' = "generated"
    /\ optimize' = IF HasFlag(optimize, OPT_LEX) THEN optimize - OPT_LEX ELSE optimize
    /\ UNCHANGED <<itemNr, crcReg, args, P, nrCrcBits, nrDataBits, shiftRight, backend,
                   step, err, text, entry, calls, prev>>

\* word = optimize(word, sort=True); return word
FinalOptimize ==
    /\ pc = "unroll"
    /\ step = nrDataBits
    /\ LET r == finalOptimize(Gen, heap, word)
       IN heap' = r.heap /\ word' = r.word
    /\ pc' = "generated"
    /\ UNCHANGED <<itemNr, crcReg, args, P, nrCrcBits, nrDataBits, shiftRight, optimize, backend,
                   step, err, text, entry, calls, prev>>

\* the rest of the gen* function of backend b: the Word is rendered and the
\* text returned
Render(b) ==
    /\ pc = "generated"
    /\ backend' = b
    /\ IF b = "c" /\ (CTypeTooWide(nrCrcBits) \/ CTypeTooWide(nrDataBits))
       THEN pc' = "failed" /\ err' = "CrcGenError" /\ text' = <<>>
       ELSE IF \E k \in DOMAIN word : EmptyXOR(heap, word[k])
       THEN pc' = "failed" /\ err' = "AssertionError" /\ text' = <<>>
       ELSE pc' = "done" /\ err' = "" /\ text' = RenderWord(b, heap, word)
    /\ UNCHANGED <<itemNr, crcReg, args, P, nrCrcBits, nrDataBits, shiftRight, optimize,
                   heap, word, step, entry, calls, prev>>

Next ==
    \/ Main
    \/ Construct
    \/ GenCall
    \/ ShiftStep
    \/ FinalOptimize
    \/ \E b \in Backends : Render(b)

Spec == Init /\ [][Next]_vars

----------------------------------------------------------------------------
(* Further sets of arguments for the same program *)

\* main's defaults for -b, -D, -C and -O, with the parameters given by fields f
DefaultArgs(f) ==
    f @@ [algorithm |-> "CRC-32", polynomial |-> <<>>, nr_crc_bits |-> <<>>,
          nr_data_bits |-> 8, shift_right |-> FALSE, shift_left |-> FALSE,
          optimize |-> OPT_ALL, data_param |-> "data", crc_in_param |-> "crcIn"]

\* -a ALGORITHM for each entry of CRC_PARAMETERS, nothing overridden
PresetArgs == {DefaultArgs([algorithm |-> a]) : a \in Algorithms}

SpecPreset == (\E a \in PresetArgs : InitWith(a)) /\ [][Next]_vars

\* every polynomial of 8 bits in both directions, 8 data bits
ByteArgs ==
    {DefaultArgs([polynomial |-> <<p>>, nr_crc_bits |-> <<8>>,
                  shift_right |-> sr, shift_left |-> ~sr]) :
        p \in SUBSET (0..7), sr \in BOOLEAN}

SpecByte == (\E a \in ByteArgs : InitWith(a)) /\ [][Next]_vars

\* narrow CRCs over more data bits, with and without the sorting step
DeepArgs ==
    {DefaultArgs([polynomial |-> <<p>>, nr_crc_bits |-> <<n>>, nr_data_bits |-> m,
                  shift_right |-> sr, shift_left |-> ~sr, optimize |-> o]) :
        n \in 1..DeepCrcBits, m \in 1..DeepDataBits, p \in SUBSET (0..(DeepCrcBits - 1)),
        sr \in BOOLEAN, o \in {OPT_ALL, OPT_FLATTEN + OPT_ELIMINATE}}

SpecDeep ==
    (\E a \in DeepArgs : a.polynomial[1] \subseteq Mask(a.nr_crc_bits[1]) /\ InitWith(a))
    /\ [][Next]_vars

\* widths at and above the widest C type, for the CRC and for the data
WideArgs ==
    {DefaultArgs([polynomial |-> <<p>>, nr_crc_bits |-> <<w[1]>>, nr_data_bits |-> w[2],
                  shift_right |-> sr, shift_left |-> ~sr, optimize |-> o]) :
        w \in {<<64, 1>>, <<65, 1>>, <<1, 64>>, <<1, 65>>, <<65, 2>>},
        p \in {{}, {0}, {0, 1}}, sr \in BOOLEAN, o \in {OPT_NONE, OPT_ALL}}

\* Without OPT_FLATTEN every data bit adds a level of nesting to the Word, so
\* the inputs with 64 and 65 data bits are generated with OPT_ALL only.
SpecWide ==
    (\E a \in WideArgs :
        /\ a.polynomial[1] \subseteq Mask(a.nr_crc_bits[1])
        /\ a.nr_data_bits < 64 \/ a.optimize = OPT_ALL
        /\ InitWith(a))
    /\ [][Next]_vars

----------------------------------------------------------------------------
(* The expression classes used directly: a Word of one XOR object is built
   from arbitrary operands, then flattened and optimized in any order. *)

Leaves == {Bit("a", 0), Bit("a", 1), Bit("b", 0), ConstBit(0), ConstBit(1)}

\* operand lists of the nested object (object 1 of the heap)
InnerOperands ==
    {<<>>, <<Bit("a", 0)>>, <<Bit("b", 0), Bit("a", 0)>>, <<ConstBit(1), Bit("a", 0)>>}

\* operand lists of the top object (object 2): leaves and the nested object
TopOperands ==
    UNION {[1..k -> Leaves \cup {XORRef(1)}] : k \in 0..MaxOperands}

InitXor ==
    /\ pc = "xor"
    /\ \E inner \in InnerOperands, top \in TopOperands : heap = <<inner, top>>
    /\ word = <<XORRef(2)>>
    /\ args = DefaultArgs(<<>>)
    /\ P = {}
    /\ nrCrcBits = 0
    /\ nrDataBits = 0
    /\ shiftRight = FALSE
    /\ optimize = 0
    /\ backend = ""
    /\ step = 0
    /\ err = ""
    /\ text = <<>>
    /\ entry = "lib"
    /\ calls = 0
    /\ prev = <<>>
    /\ itemNr = 0
    /\ crcReg = {}

XorStates == {"xor", "flattened", "optimized", "optimized_lex"}

\* word.flatten()
WordFlatten ==
    /\ pc \in XorStates
    /\ calls < MaxCalls
    /\ calls' = calls + 1
    /\ prev' = WordTree(heap, word)
    /\ heap' = Word_flatten(heap, word)
    /\ pc' = "flattened"
    /\ UNCHANGED <<itemNr, crcReg, args, P, nrCrcBits, nrDataBits, shiftRight, optimize, backend,
                   word, step, err, text, entry>>

\* word.optimize(sortLex)
WordOptimize(sortLex) ==
    /\ pc \in XorStates
    /\ calls < MaxCalls
    /\ calls' = calls + 1
    /\ prev' = WordTree(heap, word)
    /\ heap' = Word_optimize(heap, word, sortLex)
    /\ pc' = IF sortLex THEN "optimized_lex" ELSE "optimized"
    /\ UNCHANGED <<itemNr, crcReg, args, P, nrCrcBits, nrDataBits, shiftRight, optimize, backend,
                   word, step, err, text, entry>>

NextXor ==
    \/ WordFlatten
    \/ \E sortLex \in BOOLEAN : WordOptimize(sortLex)

SpecXor == InitXor /\ [][NextXor]_vars

----------------------------------------------------------------------------
(* Expressions nested two levels deep: object 3 is the top of the Word,
   object 2 may hold object 1, object 3 may hold both; the second element of
   the Word is a leaf. *)

\* operand lists of object 1
NestInner == {<<>>, <<Bit("b", 0)>>, <<Bit("a", 0), Bit("b", 0)>>, <<ConstBit(1), Bit("a", 0)>>}

\* operand lists of object 2
NestMiddle == UNION {[1..k -> {Bit("a", 0), ConstBit(0), XORRef(1)}] : k \in 0..2}

\* operand lists of object 3
NestTop ==
    UNION {[1..k -> {Bit("a", 0), Bit("b", 0), ConstBit(1), XORRef(1), XORRef(2)}] :
              k \in 0..MaxOperands}

InitNest ==
    /\ pc = "xor"
    /\ \E o1 \in NestInner, o2 \in NestMiddle, o3 \in NestTop : heap = <<o1, o2, o3>>
    /\ \E leaf \in {Bit("a", 1), ConstBit(0)} : word = <<XORRef(3), leaf>>
    /\ args = DefaultArgs(<<>>)
    /\ P = {}
    /\ nrCrcBits = 0
    /\ nrDataBits = 0
    /\ shiftRight = FALSE
    /\ optimize = 0
    /\ backend = ""
    /\ step = 0
    /\ err = ""
    /\ text = <<>>
    /\ entry = "lib"
    /\ calls = 0
    /\ prev = <<>>
    /\ itemNr = 0
    /\ crcReg = {}

SpecNest == InitNest /\ [][NextXor]_vars

----------------------------------------------------------------------------
(* The generator run item by item: the loops of Word.flatten and
   Word.optimize take one item of the Word per step, so that the state
   between two items is visible. *)

\* valid configurations with every flag set
BitArgs ==
    {DefaultArgs([polynomial |-> <<p>>, nr_crc_bits |-> <<n>>, nr_data_bits |-> m,
                  shift_right |-> sr, shift_left |-> ~sr, optimize |-> o]) :
        n \in 1..MaxCrcBits, m \in 1..MaxDataBits, p \in SUBSET (0..(MaxCrcBits - 1)),
        sr \in BOOLEAN, o \in OptValues}

\* the positions inside optimize(word) and optimize(word, sort=True)
BitStates == {"flatten", "optimize", "final_flatten", "final_optimize"}

\* the loop over j of one shift step and Word(*bits); optimize(word) is entered
BuildBits ==
    /\ pc = "unroll"
    /\ step < nrDataBits
    /\ LET r == shiftBits(Gen, heap, word, dataIndex(Gen, step), 0, <<>>)
       IN heap' = r.heap /\ word' = r.word
    /\ step' = step + 1
    /\ pc' = "flatten"
    /\ itemNr' = 0
    /\ UNCHANGED <<crcReg, args, P, nrCrcBits, nrDataBits, shiftRight, optimize, backend,
                   err, text, entry, calls, prev>>

\* after the last data bit optimize(word, sort=True) is entered
FinalPass ==
    /\ pc = "unroll"
    /\ step = nrDataBits
    /\ pc' = "final_flatten"
    /\ itemNr' = 0
    /\ UNCHANGED <<crcReg, args, P, nrCrcBits, nrDataBits, shiftRight, optimize, backend,
                   heap, word, step, err, text, entry, calls, prev>>

\* one iteration of Word.flatten: item.flatten()
FlattenItem ==
    /\ pc \in {"flatten", "final_flatten"}
    /\ HasFlag(optimize, OPT_FLATTEN)
    /\ itemNr < Len(word)
    /\ prev' = WordTree(heap, word)
    /\ heap' = flatten(heap, word[itemNr + 1]).heap
    /\ itemNr' = itemNr + 1
    /\ UNCHANGED <<crcReg, pc, args, P, nrCrcBits, nrDataBits, shiftRight, optimize, backend,
                   word, step, err, text, entry, calls>>

\* Word.flatten has returned, or OPT_FLATTEN is not set
WordFlattened ==
    /\ pc \in {"flatten", "final_flatten"}
    /\ ~HasFlag(optimize, OPT_FLATTEN) \/ itemNr = Len(word)
    /\ pc' = IF pc = "flatten" THEN "optimize" ELSE "final_optimize"
    /\ itemNr' = 0
    /\ UNCHANGED <<crcReg, args, P, nrCrcBits, nrDataBits, shiftRight, optimize, backend,
                   heap, word, step, err, text, entry, calls, prev>>

\* mutant: the first iteration simplifies every item of the Word
OptimizeItem_wholeWord ==
    /\ pc \in {"optimize", "final_optimize"}
    /\ HasFlag(optimize, OPT_ELIMINATE)
    /\ itemNr < Len(word)
    /\ prev' = WordTree(heap, word)
    /\ heap' = Word_optimize(heap, word, pc = "final_optimize" /\ HasFlag(optimize, OPT_LEX))
    /\ itemNr' = itemNr + 1
    /\ UNCHANGED <<crcReg, pc, args, P, nrCrcBits, nrDataBits, shiftRight, optimize, backend,
                   word, step, err, text, entry, calls>>

\* one iteration of Word.optimize: item.optimize(sortLex)
OptimizeItem ==
    /\ pc \in {"optimize", "final_optimize"}
    /\ HasFlag(optimize, OPT_ELIMINATE)
    /\ itemNr < Len(word)
    /\ prev' = WordTree(heap, word)
    /\ heap' = optimize_item(heap, word[itemNr + 1],
                             pc = "final_optimize" /\ HasFlag(optimize, OPT_LEX))
    /\ itemNr' = itemNr + 1
    /\ UNCHANGED <<crcReg, pc, args, P, nrCrcBits, nrDataBits, shiftRight, optimize, backend,
                   word, step, err, text, entry, calls>>

\* Word.optimize has returned, or OPT_ELIMINATE is not set: optimize(word)
\* returns to the loop over the data bits, optimize(word, sort=True) to the
\* return of __gen
WordOptimized ==
    /\ pc \in {"optimize", "final_optimize"}
    /\ ~HasFlag(optimize, OPT_ELIMINATE) \/ itemNr = Len(word)
    /\ pc' = IF pc = "optimize" THEN "unroll" ELSE "generated"
    /\ itemNr' = 0
    /\ UNCHANGED <<crcReg, args, P, nrCrcBits, nrDataBits, shiftRight, optimize, backend,
                   heap, word, step, err, text, entry, calls, prev>>

NextBits ==
    \/ Construct
    \/ GenCall
    \/ BuildBits
    \/ FinalPass
    \/ FlattenItem
    \/ WordFlattened
    \/ OptimizeItem
    \/ WordOptimized

SpecBits ==
    (\E a \in BitArgs : a.polynomial[1] \subseteq Mask(a.nr_crc_bits[1]) /\ InitWith(a))
    /\ [][NextBits]_vars

\* the item-by-item run returns the objects and the Word that __gen returns
BitsAgreeWithGen ==
    /\ pc = "generated" => heap = gen(Gen).heap /\ word = gen(Gen).word
    /\ (pc = "unroll" /\ step > 0) =>
          LET r == genLoop(Gen, heap, word, step)
          IN r.heap = gen(Gen).heap /\ r.word = gen(Gen).word

RECURSIVE Objects(_, _)
\* the ids of the XOR objects reachable from an operand
Objects(h, item) ==
    IF item.type = "XOR"
    THEN {item.id} \cup UNION {Objects(h, h[item.id][k]) : k \in DOMAIN h[item.id]}
    ELSE {}

----------------------------------------------------------------------------
(* Parameter names given with -D and -C: the defaults, and names of which
   one begins with the other *)

NameArgs ==
    {DefaultArgs([polynomial |-> <<p>>, nr_crc_bits |-> <<n>>, nr_data_bits |-> m,
                  shift_right |-> sr, shift_left |-> ~sr,
                  data_param |-> np[1], crc_in_param |-> np[2]]) :
        n \in 1..MaxCrcBits, m \in 1..MaxDataBits, p \in SUBSET (0..(MaxCrcBits - 1)),
        sr \in BOOLEAN,
        np \in {<<"data", "crcIn">>, <<"inData", "inCrc">>, <<"in", "inCrc">>}}

SpecNames ==
    (\E a \in NameArgs : a.polynomial[1] \subseteq Mask(a.nr_crc_bits[1]) /\ InitWith(a))
    /\ [][Next]_vars

\* Bit x comes before Bit y in the order by (source name, numeric index)
NameIndexLess(x, y) ==
    \/ StrLess(Chars(x.name), Chars(y.name))
    \/ x.name = y.name /\ x.index < y.index

----------------------------------------------------------------------------
(* util.poly2int and util.int2poly called directly by a user of the library
   (entry = "lib"), one after the other, on an integer or on a string; P
   holds the integer, text the string, prev the first input.  The functions
   themselves check neither the width nor the form of the string beforehand,
   so width 0 and strings without "^" are inputs; the option -T of main,
   which checks the width and chooses the function by the "^", is not what
   these actions model. *)

\* the term of exponent k in a polynomial string
PolyTerm(k) == IF k = 0 THEN <<49>> ELSE IF k = 1 THEN <<120>> ELSE <<120, 94>> \o DecDigits(k)

RECURSIVE CanonicalTail(_, _)
\* " + term" for every coefficient of q from exponent k down to 0
CanonicalTail(q, k) ==
    IF k < 0 THEN <<>>
    ELSE (IF k \in q THEN <<32, 43, 32>> \o PolyTerm(k) ELSE <<>>) \o CanonicalTail(q, k - 1)

\* the canonical strings of width n: leading term x^n, then the other terms
\* in descending exponent
CanonicalStrings(n) ==
    {<<120, 94>> \o DecDigits(n) \o CanonicalTail(q, n - 1) : q \in SUBSET Mask(n)}

\* "x + 1", "X^2+x", "0x7", "7", "x^", "x^2 + y" and the empty string
OtherStrings ==
    {<<120, 32, 43, 32, 49>>, <<88, 94, 50, 43, 120>>, <<48, 120, 55>>, <<55>>,
     <<120, 94>>, <<120, 94, 50, 32, 43, 32, 121>>, <<>>}

InitPoly ==
    /\ nrCrcBits \in 0..MaxPolyBits
    /\ shiftRight \in BOOLEAN
    /\ \/ pc = "int" /\ P \in SUBSET Mask(nrCrcBits) /\ text = <<>> /\ prev = P
       \/ pc = "str" /\ P = {} /\ text \in CanonicalStrings(nrCrcBits) \cup OtherStrings
          /\ prev = text
    /\ args = DefaultArgs(<<>>)
    /\ itemNr = 0
    /\ crcReg = {}
    /\ nrDataBits = 0
    /\ optimize = 0
    /\ backend = ""
    /\ heap = <<>>
    /\ word = <<>>
    /\ step = 0
    /\ err = ""
    /\ entry = "lib"
    /\ calls = 0

\* a direct call: text = util.int2poly(P, nrCrcBits, shiftRight)
Int2Poly ==
    /\ pc = "int"
    /\ calls < MaxCalls
    /\ calls' = calls + 1
    /\ text' = int2poly(P, nrCrcBits, shiftRight)
    /\ pc' = "str"
    /\ UNCHANGED <<itemNr, crcReg, args, P, nrCrcBits, nrDataBits, shiftRight, optimize, backend,
                   heap, word, step, err, entry, prev>>

\* a direct call: P = util.poly2int(text, nrCrcBits, shiftRight), or the
\* ValueError it raises
Poly2Int ==
    /\ pc = "str"
    /\ calls < MaxCalls
    /\ calls' = calls + 1
    /\ LET r == poly2int(text, nrCrcBits, shiftRight)
       IN IF r.ok
          THEN pc' = "int" /\ P' = r.value /\ err' = ""
          ELSE pc' = "failed" /\ P' = P /\ err' = "ValueError"
    /\ UNCHANGED <<itemNr, crcReg, args, nrCrcBits, nrDataBits, shiftRight, optimize, backend,
                   heap, word, step, text, entry, prev>>

NextPoly == Int2Poly \/ Poly2Int

SpecPoly == InitPoly /\ [][NextPoly]_vars

----------------------------------------------------------------------------
(* The two reference implementations called on the same input: crcReg holds
   the CRC passed in and then the CRC returned, prev the input. *)

\* the widths accepted by the historical crcgen: the ends of 8..64, the sizes
\* of the presets and one width that is not a multiple of 8
RefWidths == {8, 9, 16, 32, 64}

\* polynomials below 2^n: the presets of width n and some patterns
RefPolynomials(n) ==
    {CRC_PARAMETERS(a).polynomial : a \in {b \in Algorithms : CRC_PARAMETERS(b).nrBits = n}}
    \cup {{}, {0}, {n - 1}, {0, 1, 2}, {0, n - 1}, Mask(n)}

\* CRC values below 2^n
RefRegisters(n) == {{}, {0}, {n - 1}, {7, 8}, {1, 3, n - 2}, Mask(8), Mask(n) \ Mask(8), Mask(n)}

InitRef ==
    /\ pc = "ref"
    /\ nrCrcBits \in RefWidths
    /\ nrDataBits = 8
    /\ P \in RefPolynomials(nrCrcBits)
    /\ shiftRight \in BOOLEAN
    /\ crcReg \in RefRegisters(nrCrcBits)
    /\ args = DefaultArgs(<<>>)
    /\ itemNr = 0
    /\ optimize = 0
    /\ backend = ""
    /\ heap = <<>>
    /\ word = <<>>
    /\ step = 0
    /\ err = ""
    /\ text = <<>>
    /\ entry = ""
    /\ calls = 0
    /\ prev = <<>>

\* crc = crcgen.CrcReference.crc(crc, data, polynomial, nrBits, shiftRight)
HistoricalCrc(data) ==
    /\ pc = "ref"
    /\ pc' = "returned"
    /\ entry' = "crcgen"
    /\ prev' = [crc |-> crcReg, data |-> data]
    /\ crcReg' = crcgen_CrcReference_crc(crcReg, data, P, nrCrcBits, shiftRight)
    /\ calls' = calls + 1
    /\ UNCHANGED <<itemNr, args, P, nrCrcBits, nrDataBits, shiftRight, optimize, backend,
                   heap, word, step, err, text>>

\* crc = libcrcgen.CrcReference.crc(crc, data, polynomial, nrCrcBits, 8, shiftRight)
GeneralCrc(data) ==
    /\ pc = "ref"
    /\ pc' = "returned"
    /\ entry' = "libcrcgen"
    /\ prev' = [crc |-> crcReg, data |-> data]
    /\ crcReg' = CrcReference_crc(crcReg, data, P, nrCrcBits, nrDataBits, shiftRight)
    /\ calls' = calls + 1
    /\ UNCHANGED <<itemNr, args, P, nrCrcBits, nrDataBits, shiftRight, optimize, backend,
                   heap, word, step, err, text>>

NextRef == \E data \in SUBSET Mask(8) : HistoricalCrc(data) \/ GeneralCrc(data)

SpecRef == InitRef /\ [][NextRef]_vars

----------------------------------------------------------------------------
(* Properties *)

\* the values of an n bit input
Values(n) == SUBSET Mask(n)

\* polynomial < 2^crcWidth
ValidPolynomial == ~ExceedsMask(P, nrCrcBits)

\* C1 (Equivalence): for every valid configuration and every flag set, the
\* Word returned by __gen, evaluated bit by bit at any (crc, data), equals
\* CrcReference.crc(crc, data, ...); the result is again an nrCrcBits wide
\* value, so the same holds when it is fed back as the next crc.
C1_Equivalence ==
    (pc = "generated" /\ ValidPolynomial) =>
        \A crc \in Values(nrCrcBits), data \in Values(nrDataBits) :
            LET out == EvalGen(Gen, heap, word, crc, data)
            IN /\ out = CrcReference_crc(crc, data, P, nrCrcBits, nrDataBits, shiftRight)
               /\ out \in Values(nrCrcBits)

\* a Word of the widest configuration has been generated with all optimizations
\* and computes a non-zero CRC
C1_Witness ==
    /\ pc = "generated" /\ ValidPolynomial
    /\ nrCrcBits = 3 /\ nrDataBits = 2 /\ optimize = OPT_ALL /\ P = {0, 2}
    /\ EvalGen(Gen, heap, word, {0, 1, 2}, {1}) # {}

\* C2 (Flag independence): the Word generated with any flag set has the truth
\* table of the Word generated with OPT_NONE for the same polynomial, widths
\* and direction.
C2_FlagIndependence ==
    pc = "generated" =>
        LET g0 == [Gen EXCEPT !.optimize = OPT_NONE]
            r0 == gen(g0)
        IN \A crc \in Values(nrCrcBits), data \in Values(nrDataBits) :
              EvalGen(Gen, heap, word, crc, data) = EvalGen(g0, r0.heap, r0.word, crc, data)

\* a Word generated with OPT_ALL whose shape differs from the OPT_NONE Word
C2_Witness ==
    /\ pc = "generated" /\ optimize = OPT_ALL /\ nrCrcBits = 3 /\ nrDataBits = 2
    /\ LET r0 == gen([Gen EXCEPT !.optimize = OPT_NONE])
       IN WordTree(heap, word) # WordTree(r0.heap, r0.word)

\* the CrcGen object that the constructor call of this run has built
Constructed ==
    Config(crcParameters(args).polynomial, crcParameters(args).nrBits,
           args.nr_data_bits, crcParameters(args).shiftRight, args.optimize,
           args.data_param, args.crc_in_param)

\* C3 (Determinism): a second generation run on the same CrcGen object returns
\* a Word structurally identical to the first, operand for operand, and no
\* step of a generation run changes the configuration.
C3_Determinism ==
    /\ (pc = "generated" /\ calls >= 2) => WordTree(heap, word) = prev
    /\ pc \in {"constructed", "unroll", "generated", "done"} => Gen = Constructed

\* a second run has returned a Word with sorted multi-operand expressions
C3_Witness ==
    /\ pc = "generated" /\ calls = 2 /\ optimize = OPT_ALL
    /\ nrCrcBits = 3 /\ nrDataBits = 2 /\ P = {0, 1}
    /\ prev = WordTree(heap, word)
    /\ \E k \in DOMAIN word : word[k].type = "XOR" /\ Len(heap[word[k].id]) >= 2

\* the bytes of the ASCII string "123456789"
CheckMessage == [k \in 1..9 |-> Num(48 + k)]

RECURSIVE GenBlock(_, _, _, _, _)
\* the words of data fed one at a time through the generated function
GenBlock(g, h, w, crc, data) ==
    IF data = <<>> THEN crc
    ELSE LET c1 == EvalGen(g, h, w, crc, Head(data))
         IN IF c1 = c1 THEN GenBlock(g, h, w, c1, Tail(data)) ELSE {}

\* C4 (CRC-32 check value): the function generated for the CRC-32 preset
\* (P = 0xEDB88320, 32 CRC bits, 8 data bits, shift right), fed the bytes of
\* "123456789" one at a time from the start value 0xFFFFFFFF and inverted at
\* the end, gives 0xCBF43926, and so does CrcReference.crcBlock with
\* postFlip.
C4_CheckValue ==
    (pc = "generated" /\ args.algorithm = "CRC-32") =>
        /\ P = Hex(<<14, 13, 11, 8, 8, 3, 2, 0>>)
        /\ nrCrcBits = 32 /\ nrDataBits = 8 /\ shiftRight
        /\ BitXor(GenBlock(Gen, heap, word, Mask(32), CheckMessage), Mask(32))
              = Hex(<<12, 11, 15, 4, 3, 9, 2, 6>>)
        /\ CrcReference_crcBlock(Mask(32), CheckMessage, P, 32, 8, TRUE, FALSE, TRUE)
              = Hex(<<12, 11, 15, 4, 3, 9, 2, 6>>)

\* the function of the CRC-32 preset has been generated by main
C4_Witness ==
    /\ pc = "generated" /\ args.algorithm = "CRC-32" /\ entry = "main"
    /\ Len(word) = 32
    /\ GenBlock(Gen, heap, word, Mask(32), CheckMessage) # Mask(32)

\* inputs of 8 bits: zero, all ones, every single bit and some mixed values
ByteSamples ==
    {{}, 0..7, {0, 2, 4, 6}, {0, 1, 5}, {3, 4, 7}} \cup {{k} : k \in 0..7}

\* C5 (Direction symmetry): for 8 CRC bits and 8 data bits and every
\* polynomial P, the shift-left result equals the bit reversal of the
\* shift-right result computed with bit-reversed P, crc and data, both for the
\* generated Word and for CrcReference.crc.
C5_DirectionSymmetry ==
    (pc = "generated" /\ nrCrcBits = 8 /\ nrDataBits = 8 /\ ~shiftRight) =>
        LET gr == [Gen EXCEPT !.P = bitreverse(P, 8), !.shiftRight = TRUE]
            r == gen(gr)
        IN \A crc \in ByteSamples, data \in ByteSamples :
              LET rcrc == bitreverse(crc, 8)
                  rdata == bitreverse(data, 8)
              IN /\ EvalGen(Gen, heap, word, crc, data)
                      = bitreverse(EvalGen(gr, r.heap, r.word, rcrc, rdata), 8)
                 /\ CrcReference_crc(crc, data, P, 8, 8, FALSE)
                      = bitreverse(CrcReference_crc(rcrc, rdata, bitreverse(P, 8), 8, 8, TRUE), 8)

\* the shift-left Word of the polynomial 0x07 (CRC-8-CCITT) has been generated
C5_Witness ==
    /\ pc = "generated" /\ nrCrcBits = 8 /\ nrDataBits = 8 /\ ~shiftRight
    /\ P = {0, 1, 2}
    /\ EvalGen(Gen, heap, word, {0}, {7}) # bitreverse(EvalGen(Gen, heap, word, {0}, {7}), 8)

\* C6 (Cancellation law): after XOR.optimize a Bit occurs in the operand list
\* exactly once if it occurred an odd number of times among the operands
\* before the call, and not at all if it occurred an even number of times.
C6_Cancellation ==
    pc \in {"optimized", "optimized_lex"} =>
        \A k \in DOMAIN word :
            \A b \in {l \in Leaves : l.type = "Bit"} :
                Count(heap[word[k].id], b) = IF IsOdd(Count(prev[k].items, b)) THEN 1 ELSE 0

\* a Bit given three times is kept once and a Bit given twice is gone
C6_Witness ==
    /\ pc = "optimized"
    /\ \E b \in Leaves :
          b.type = "Bit" /\ Count(prev[1].items, b) = 3 /\ Count(heap[word[1].id], b) = 1

\* the Word is the result of a simplification pass with the given sort argument
Simplified(sort) ==
    IF sort THEN pc = "generated" ELSE pc = "unroll" /\ step >= 1

\* C7 (Idempotent simplification): for every flag combination, a second pass
\* of the generator's optimize helper, with the same settings, over a Word that
\* the helper has simplified leaves the operand list of every bit identical in
\* content and order; no object of the Word changes.
C7_Idempotent ==
    \A sort \in BOOLEAN :
        Simplified(sort) =>
            LET h2 == gen_optimize(Gen, heap, word, sort)
            IN /\ WordTree(h2, word) = WordTree(heap, word)
               /\ h2 = heap

\* elimination without flattening has left nested XOR operands in a Word
C7_Witness ==
    /\ pc = "generated" /\ optimize = OPT_ELIMINATE
    /\ nrCrcBits = 3 /\ nrDataBits = 2 /\ P = {0, 1, 2}
    /\ \E k \in DOMAIN word :
          /\ word[k].type = "XOR"
          /\ \E l \in DOMAIN heap[word[k].id] : heap[word[k].id][l].type = "XOR"

\* C8 (Iteration-order invariance): under OPT_ALL the Word of the libcrcgen
\* generator, which simplifies after every shift step, is structurally
\* identical to the Word of the crcgen generator, which simplifies once at the
\* end, for the same polynomial, widths and direction.
C8_OrderInvariance ==
    (pc = "generated" /\ optimize = OPT_ALL) =>
        LET r == crcgen_gen(Gen)
        IN WordTree(heap, word) = WordTree(r.heap, r.word)

\* an OPT_ALL Word of a configuration for which the two generators accumulate
\* the operands in different orders: without the sorting step their Words differ
C8_Witness ==
    /\ pc = "generated" /\ optimize = OPT_ALL
    /\ nrCrcBits = 2 /\ nrDataBits = 4 /\ P = {0, 1} /\ ~shiftRight
    /\ LET g == [Gen EXCEPT !.optimize = OPT_FLATTEN + OPT_ELIMINATE]
       IN WordTree(gen(g).heap, gen(g).word) # WordTree(crcgen_gen(g).heap, crcgen_gen(g).word)

\* C9 (Invalid widths fail fast): with a CRC width or a data width below 1,
\* main fails before a CrcGen is constructed and every gen* call fails in
\* __gen, both with CrcGenError; no shift step runs, no Word and no text exist.
C9_InvalidWidthsFail ==
    (crcParameters(args).nrBits < 1 \/ args.nr_data_bits < 1) =>
        /\ pc \in {"start", "constructed", "failed"}
        /\ entry = "main" => pc # "constructed"
        /\ (entry = "main" /\ pc # "start") \/ calls >= 1 => pc = "failed"
        /\ pc = "failed" => err = "CrcGenError"
        /\ heap = <<>> /\ word = <<>> /\ text = <<>> /\ step = 0

\* a gen* call on a library object with a valid CRC width and data width 0 has failed
C9_Witness ==
    /\ pc = "failed" /\ entry = "lib" /\ calls = 1 /\ err = "CrcGenError"
    /\ nrCrcBits = 2 /\ nrDataBits = 0

\* C10 (Oversized polynomial rejected): with a polynomial above
\* 2^crcWidth - 1, generation fails with CrcGenError before any shift step
\* and yields no Word and no text.
C10_OversizedFails ==
    ExceedsMask(crcParameters(args).polynomial, crcParameters(args).nrBits) =>
        /\ pc \in {"start", "constructed", "failed"}
        /\ (entry = "main" /\ pc # "start") \/ calls >= 1 => pc = "failed"
        /\ pc = "failed" => err = "CrcGenError"
        /\ word = <<>> /\ text = <<>> /\ step = 0

\* C11 (Backend width limit): a gen* call fails after __gen has accepted the
\* widths only in genC and only when the CRC width or the data width is above
\* 64; it fails with CrcGenError, returns no text, and fails after the unroll
\* has produced the complete Word.  Every other backend returns text for the
\* same Word.
C11_BackendWidthLimit ==
    LET wide == nrCrcBits > 64 \/ nrDataBits > 64
    IN /\ (pc = "failed" /\ calls >= 1 /\ nrCrcBits >= 1 /\ nrDataBits >= 1) =>
            /\ backend = "c" /\ wide
            /\ err = "CrcGenError" /\ text = <<>>
            /\ Len(word) = nrCrcBits /\ step = nrDataBits
       /\ (backend = "c" /\ wide) => pc = "failed"
       /\ (backend = "c" /\ ~wide) => (pc = "done" /\ Len(text) = nrCrcBits)
       /\ backend \in Backends \ {"c"} => (pc = "done" /\ Len(text) = nrCrcBits)

\* genC has failed on a Word of 65 bits that __gen returned
C11_Witness ==
    /\ pc = "failed" /\ backend = "c" /\ err = "CrcGenError"
    /\ nrCrcBits = 65 /\ Len(word) = 65 /\ step = nrDataBits /\ text = <<>>

\* C12 (No empty Xor reaches a renderer): in the Word that __gen returns,
\* for every flag set, every XOR object at the top level or nested below it
\* has at least one operand; no gen* call ends in the AssertionError of
\* XOR.__gen.
C12_NoEmptyXor ==
    /\ pc \in {"generated", "done"} => \A k \in DOMAIN word : ~EmptyXOR(heap, word[k])
    /\ err # "AssertionError"

\* a Word with nested XOR objects, generated without any optimization, has been rendered
C12_Witness ==
    /\ pc = "done" /\ text # <<>> /\ optimize = OPT_NONE /\ ValidPolynomial
    /\ nrCrcBits = 3 /\ nrDataBits = 2 /\ P = {0, 2}
    /\ \E k \in DOMAIN word :
          /\ word[k].type = "XOR"
          /\ \E l \in DOMAIN heap[word[k].id] : heap[word[k].id][l].type = "XOR"

\* C13 (Polynomial string round trip): for every width n, direction sr and
\* integer p below 2^n, poly2int(int2poly(p, n, sr), n, sr) = p; for every
\* canonical string s of width n, poly2int accepts s and
\* int2poly(poly2int(s, n, sr), n, sr) = s; "x^8 + x^2 + x + 1" with width 8
\* and left shift converts to 0x07.
C13_PolyRoundTrip ==
    /\ (pc = "int" /\ calls = 2) => P = prev
    /\ (pc = "str" /\ calls = 2 /\ prev \in CanonicalStrings(nrCrcBits)) => text = prev
    /\ pc = "failed" => (calls = 1 /\ prev \notin CanonicalStrings(nrCrcBits))
    /\ (pc = "int" /\ calls = 1 /\ nrCrcBits = 8 /\ ~shiftRight
          /\ prev = <<120, 94, 56, 32, 43, 32, 120, 94, 50, 32, 43, 32, 120, 32, 43, 32, 49>>)
       => P = {0, 1, 2}

\* "x^8 + x^2 + x + 1" has been converted to 0x07 and back to the same string
C13_Witness ==
    /\ pc = "str" /\ calls = 2 /\ nrCrcBits = 8 /\ ~shiftRight /\ P = {0, 1, 2}
    /\ prev = <<120, 94, 56, 32, 43, 32, 120, 94, 50, 32, 43, 32, 120, 32, 43, 32, 49>>
    /\ text = prev

\* C14 (Zero input scenario): the Word generated for the CRC-8-CCITT preset
\* (polynomial 0x07, 8 CRC bits, 8 data bits, shift left) evaluates to 0x00 at
\* crc = 0x00, data = 0x00.
C14_ZeroInput ==
    (pc = "generated" /\ args.algorithm = "CRC-8-CCITT") =>
        /\ P = {0, 1, 2} /\ nrCrcBits = 8 /\ nrDataBits = 8 /\ ~shiftRight
        /\ EvalGen(Gen, heap, word, {}, {}) = {}

\* the CRC-8-CCITT Word exists and gives 0x07 for crc = 0x00, data = 0x01
C14_Witness ==
    /\ pc = "generated" /\ args.algorithm = "CRC-8-CCITT" /\ Len(word) = 8
    /\ EvalGen(Gen, heap, word, {}, {}) = {}
    /\ EvalGen(Gen, heap, word, {}, {0}) = {0, 1, 2}

\* C15 (Fixed Word length): before the first shift step, after every shift
\* step and at the end of generation the working Word has exactly nrCrcBits
\* elements and the data input Word exactly nrDataBits elements; the final
\* pass, which only flattens and optimizes, leaves the elements of the Word
\* in place.
C15_FixedWordLength ==
    /\ [](pc \in {"unroll", "generated", "done"} =>
            /\ Len(word) = nrCrcBits
            /\ Len(inData(Gen)) = nrDataBits
            /\ Len(inCrc(Gen)) = nrCrcBits)
    /\ [][(pc = "unroll" /\ pc' = "generated") => word' = word]_vars

\* generation has ended with a Word of 3 bits after 2 shift steps
C15_Witness ==
    /\ pc = "generated" /\ optimize = OPT_FLATTEN + OPT_ELIMINATE
    /\ nrCrcBits = 3 /\ nrDataBits = 2 /\ step = 2 /\ P = {1, 2}
    /\ Len(word) = 3 /\ Len(inData(Gen)) = 2

\* the expression that one shift step gives bit j, from the Word before the step
StepBit(j) ==
    LET predecessor ==
            IF shiftRight
            THEN (IF j < nrCrcBits - 1 THEN Tree(heap, word[j + 2]) ELSE ConstBit(0))
            ELSE (IF j > 0 THEN Tree(heap, word[j]) ELSE ConstBit(0))
        feedbackBit == Tree(heap, IF shiftRight THEN word[1] ELSE word[nrCrcBits])
        currentDataBit ==
            Bit(args.data_param, IF shiftRight THEN step ELSE nrDataBits - 1 - step)
        feedbackQuery == [type |-> "XOR", items |-> <<feedbackBit, currentDataBit>>]
    IN IF j \in P
       THEN [type |-> "XOR", items |-> <<predecessor, feedbackQuery>>]
       ELSE predecessor

\* C16 (Step-wise refinement): after k shift steps, k in 0..nrDataBits, the
\* working Word evaluates at every (crc, data) to the register of
\* CrcReference.crc after k iterations of its loop; a shift step without
\* optimization sets bit j to XOR(predecessor, XOR(feedbackBit, currentDataBit))
\* if bit j of the polynomial is set and to the predecessor otherwise.
C16_StepRefinement ==
    /\ [](pc = "unroll" =>
            \A crc \in Values(nrCrcBits), data \in Values(nrDataBits) :
                EvalGen(Gen, heap, word, crc, data)
                    = RefLoop(crc, data, P, nrCrcBits, nrDataBits, shiftRight, step))
    /\ [][(pc = "unroll" /\ step' = step + 1 /\ optimize = OPT_NONE) =>
            WordTree(heap', word') = [k \in 1..nrCrcBits |-> StepBit(k - 1)]]_vars

\* the first of two shift steps has run without optimization, to the left
C16_Witness ==
    /\ pc = "unroll" /\ step = 1 /\ nrDataBits = 2 /\ nrCrcBits = 3
    /\ optimize = OPT_NONE /\ ~shiftRight /\ P = {0, 2}
    /\ Tree(heap, word[1]).type = "XOR" /\ Tree(heap, word[2]).type = "Bit"
    /\ EvalGen(Gen, heap, word, {2}, {}) = {0, 2}

\* the indexes of the data bits that occur in the working Word
DataIndexes(h, items) ==
    {b.index : b \in {x \in WordBits(h, items) : x.name = args.data_param}}

\* the first k data bit indexes in the order of the direction
FirstDataBits(k) ==
    IF shiftRight THEN 0..(k - 1) ELSE (nrDataBits - k)..(nrDataBits - 1)

\* C17 (Data-bit consumption order): the working Word before the first shift
\* step is inCrc; the unroll runs exactly nrDataBits steps; the step number k
\* (from 0) brings in the data bit nrDataBits-1-k when shifting left and the
\* data bit k when shifting right, so that each data bit is consumed once; a
\* Word never holds a data bit that is not yet consumed.
C17_DataBitOrder ==
    /\ [](pc \in {"unroll", "generated", "done"} =>
            /\ step <= nrDataBits
            /\ pc # "unroll" => step = nrDataBits
            /\ (pc = "unroll" /\ step = 0) =>
                  word = [i \in 1..nrCrcBits |-> Bit(args.crc_in_param, i - 1)]
            /\ DataIndexes(heap, word) \subseteq FirstDataBits(step)
            /\ (optimize = OPT_NONE /\ P \cap Mask(nrCrcBits) # {}) =>
                  DataIndexes(heap, word) = FirstDataBits(step))
    /\ [][(pc = "unroll" /\ step' = step + 1 /\ optimize = OPT_NONE
             /\ P \cap Mask(nrCrcBits) # {}) =>
            DataIndexes(heap', word') \ DataIndexes(heap, word)
                = {IF shiftRight THEN step ELSE nrDataBits - 1 - step}]_vars

\* a left shifting unroll of two data bits has consumed data bit 1 only
C17_Witness ==
    /\ pc = "unroll" /\ step = 1 /\ nrDataBits = 2 /\ nrCrcBits = 2
    /\ ~shiftRight /\ optimize = OPT_NONE /\ P = {0}
    /\ DataIndexes(heap, word) = {1}

\* the operands are in ascending order of their sort keys
IsSorted(h, items) ==
    \A i, j \in DOMAIN items : i < j => ~StrLess(sortKey(h, items[j]), sortKey(h, items[i]))

\* the operands of every XOR bit of the Word are in ascending sort-key order
WordSorted(h, items) ==
    \A k \in DOMAIN items : items[k].type = "XOR" => IsSorted(h, h[items[k].id])

\* C18 as claimed (Final sorting pass): for every optimization flag set the
\* operands of every Xor bit of the returned Word are in ascending sort-key
\* order.
C18_SortedForEveryFlagSet ==
    pc = "generated" => WordSorted(heap, word)

\* C18 amended: the final pass asks for sorting, and sorting takes place
\* when OPT_ELIMINATE and OPT_LEX are both set: then the operands of every
\* Xor bit of the returned Word are in ascending sort-key order.  With any
\* other flag set the final pass leaves the Word as the last shift step
\* left it.
C18_FinalSort ==
    /\ [](pc = "generated" /\ HasFlag(optimize, OPT_ELIMINATE) /\ HasFlag(optimize, OPT_LEX)
            => WordSorted(heap, word))
    /\ [][(pc = "unroll" /\ pc' = "generated"
             /\ ~(HasFlag(optimize, OPT_ELIMINATE) /\ HasFlag(optimize, OPT_LEX)))
            => WordTree(heap', word') = WordTree(heap, word)]_vars

\* an OPT_ALL Word whose operands the per-step passes alone leave in another order
C18_Witness ==
    /\ pc = "generated" /\ optimize = OPT_ALL /\ nrCrcBits = 3 /\ nrDataBits = 2
    /\ P = {0, 1, 2} /\ shiftRight
    /\ WordSorted(heap, word)
    /\ LET g == [Gen EXCEPT !.optimize = OPT_FLATTEN + OPT_ELIMINATE]
       IN ~WordSorted(gen(g).heap, gen(g).word)

\* C19 (Lexicographic sort needs eliminate): for every flag set F without
\* OPT_ELIMINATE, the Word generated with F and the Word generated with
\* F + OPT_LEX for the same configuration are structurally identical.
C19_LexNeedsEliminate ==
    (pc = "generated" /\ ~HasFlag(optimize, OPT_ELIMINATE) /\ ~HasFlag(optimize, OPT_LEX)) =>
        LET r == gen([Gen EXCEPT !.optimize = optimize + OPT_LEX])
        IN WordTree(heap, word) = WordTree(r.heap, r.word)

\* a flattened Word without elimination whose operands are not in sorted order
C19_Witness ==
    /\ pc = "generated" /\ optimize = OPT_FLATTEN /\ nrCrcBits = 3 /\ nrDataBits = 2
    /\ P = {0, 1, 2} /\ shiftRight
    /\ ~WordSorted(heap, word)
    /\ LET r == gen([Gen EXCEPT !.optimize = OPT_FLATTEN + OPT_LEX])
       IN ~WordSorted(r.heap, r.word)

\* C20 (Constant handling in eliminate): after XOR.optimize the operand list
\* holds exactly one ConstBit(1) if the operands before the call held an odd
\* number of them and none if the number was even; no ConstBit(0) operand is
\* kept: the result holds a ConstBit(0) only as the single entry that stands
\* for a list in which nothing survived.
C20_ConstantHandling ==
    pc \in {"optimized", "optimized_lex"} =>
        \A k \in DOMAIN word :
            LET before == prev[k].items
                after == heap[word[k].id]
                nothingLeft ==
                    /\ \A l \in DOMAIN before : before[l].type # "XOR"
                    /\ \A l \in DOMAIN before :
                          before[l].type = "Bit" => ~IsOdd(Count(before, before[l]))
                    /\ ~IsOdd(Count(before, ConstBit(1)))
            IN /\ Count(after, ConstBit(1)) = IF IsOdd(Count(before, ConstBit(1))) THEN 1 ELSE 0
               /\ IF nothingLeft THEN after = <<ConstBit(0)>>
                                 ELSE Count(after, ConstBit(0)) = 0

\* the operands ConstBit(0), ConstBit(1), a[0] have become a[0], ConstBit(1)
C20_Witness ==
    /\ pc = "optimized"
    /\ prev[1].items = <<ConstBit(0), ConstBit(1), Bit("a", 0)>>
    /\ heap[word[1].id] = <<Bit("a", 0), ConstBit(1)>>

\* the values of the variables a and b that the expressions built directly read
XorEnvs == [{"a", "b"} -> SUBSET (0..1)]

\* the operands of the XOR object `item` as trees
OperandTrees(h, item) == WordTree(h, h[item.id])

\* C21 as stated (Nested operands pass through eliminate): after
\* XOR.optimize, with or without sortLex, the nested operands of the object
\* are those it had before, unchanged, with the same multiplicity and in the
\* same relative order, and the value of the object is unchanged.
C21_NestedSameOrder ==
    pc \in {"optimized", "optimized_lex"} =>
        \A k \in DOMAIN word :
            word[k].type = "XOR" =>
                /\ SelectSeq(OperandTrees(heap, word[k]), IsOther)
                      = SelectSeq(prev[k].items, IsOther)
                /\ \A env \in XorEnvs : EvalItem(heap, word[k], env) = EvalTree(prev[k], env)

\* C21 (Nested operands pass through eliminate), amended: after XOR.optimize
\* every nested operand is kept unchanged with the multiplicity it had, also
\* when two nested operands are identical, and the value of the object is
\* unchanged; the nested operands keep their relative order when sortLex is
\* false, and are placed by their sort keys when it is true.
C21_NestedKept ==
    pc \in {"optimized", "optimized_lex"} =>
        \A k \in DOMAIN word :
            word[k].type = "XOR" =>
                LET before == SelectSeq(prev[k].items, IsOther)
                    after == SelectSeq(OperandTrees(heap, word[k]), IsOther)
                IN /\ Len(after) = Len(before)
                   /\ \A l \in DOMAIN before : Count(after, before[l]) = Count(before, before[l])
                   /\ pc = "optimized" => after = before
                   /\ pc = "optimized_lex" =>
                         after = WordTree(heap, SortItems(heap, SelectSeq(heap[word[k].id], IsOther)))
                   /\ \A env \in XorEnvs : EvalItem(heap, word[k], env) = EvalTree(prev[k], env)

\* sorting has exchanged two different nested operands, and an identical pair
\* has been kept
C21_Witness ==
    /\ pc = "optimized_lex" /\ calls = 1
    /\ heap[1] = <<Bit("b", 0)>> /\ heap[2] = <<Bit("a", 0)>>
    /\ prev[1].items = <<Tree(heap, XORRef(1)), Tree(heap, XORRef(1)), Tree(heap, XORRef(2))>>
    /\ heap[3] = <<XORRef(2), XORRef(1), XORRef(1)>>

\* C22 (Empty XOR is zero): after XOR.optimize the operand list is never
\* empty; if the list before the call held no nested operand, every Bit an
\* even number of times and an even number of ConstBit(1), the list after the
\* call is exactly <<ConstBit(0)>>.
C22_EmptyIsZero ==
    pc \in {"optimized", "optimized_lex"} =>
        \A k \in DOMAIN word :
            LET before == prev[k].items
                after == heap[word[k].id]
                allRemoved ==
                    /\ SelectSeq(before, IsOther) = <<>>
                    /\ \A l \in DOMAIN before : ~IsOdd(Count(before, before[l])) \/ before[l] = ConstBit(0)
            IN /\ after # <<>>
               /\ allRemoved => after = <<ConstBit(0)>>

\* a[0], ConstBit(0), a[0] have been replaced by the single ConstBit(0)
C22_Witness ==
    /\ pc \in {"optimized", "optimized_lex"}
    /\ prev[1].items = <<Bit("a", 0), ConstBit(0), Bit("a", 0)>>
    /\ heap[word[1].id] = <<ConstBit(0)>>

\* C23 (Flatten): after XOR.flatten the operand list of the object holds no
\* XOR and is the sequence of the Bit and ConstBit leaves of the tree the
\* object had before, from left to right with their multiplicities, so its
\* value is unchanged; flatten on a Bit or ConstBit returns the operand itself
\* and changes no object.
C23_Flatten ==
    pc = "flattened" =>
        \A k \in DOMAIN word :
            IF word[k].type = "XOR"
            THEN /\ \A l \in DOMAIN heap[word[k].id] : heap[word[k].id][l].type # "XOR"
                 /\ heap[word[k].id] = TreeLeaves(prev[k])
                 /\ \A env \in XorEnvs : EvalItem(heap, word[k], env) = EvalTree(prev[k], env)
            ELSE /\ prev[k] = word[k]
                 /\ flatten(heap, word[k]) = [heap |-> heap, items |-> <<word[k]>>]

\* a tree two levels deep has become the list of its six leaves
C23_Witness ==
    /\ pc = "flattened" /\ calls = 1
    /\ prev[1] = XorTree(<<Bit("b", 0),
                           XorTree(<<XorTree(<<Bit("a", 0), Bit("b", 0)>>), Bit("a", 0)>>),
                           XorTree(<<Bit("a", 0), Bit("b", 0)>>)>>)
    /\ heap[3] = <<Bit("b", 0), Bit("a", 0), Bit("b", 0), Bit("a", 0), Bit("a", 0), Bit("b", 0)>>
    /\ word[2] = Bit("a", 1)

\* C24 (Per-bit independence): when Word.flatten or Word.optimize has
\* simplified one item of the Word, in a shift step or in the final pass,
\* every other item of that Word has the structure it had before and the same
\* value under every assignment of the inputs, although the XOR objects are
\* changed in place and are shared between items and with earlier Words.
C24_OtherBitsUnchanged ==
    (pc \in BitStates /\ itemNr > 0) =>
        \A k \in DOMAIN word :
            k # itemNr =>
                /\ Tree(heap, word[k]) = prev[k]
                /\ \A crc \in SUBSET Mask(nrCrcBits), data \in SUBSET Mask(nrDataBits) :
                      LET env == (Gen.crcVarName :> crc) @@ (Gen.dataVarName :> data)
                      IN EvalItem(heap, word[k], env) = EvalTree(prev[k], env)

\* the final pass has sorted the operands of an item that shares an XOR
\* object with another item of the Word
C24_Witness ==
    /\ pc = "final_optimize" /\ itemNr > 0
    /\ Tree(heap, word[itemNr]) # prev[itemNr]
    /\ \E k \in DOMAIN word :
          k # itemNr /\ Objects(heap, word[k]) \cap Objects(heap, word[itemNr]) # {}

\* C25 (Bounded expression size): with OPT_FLATTEN and OPT_ELIMINATE set,
\* after every shift step and after the final pass each XOR item of the Word
\* has at most nrCrcBits + nrDataBits operands, none of them an XOR and no
\* operand twice.
C25_BoundedSize ==
    (pc \in {"unroll", "generated"} /\ step > 0
     /\ HasFlag(optimize, OPT_FLATTEN) /\ HasFlag(optimize, OPT_ELIMINATE)) =>
        \A k \in DOMAIN word :
            word[k].type = "XOR" =>
                LET ops == heap[word[k].id]
                IN /\ Len(ops) <= nrCrcBits + nrDataBits
                   /\ \A l \in DOMAIN ops : ops[l].type # "XOR" /\ Count(ops, ops[l]) = 1

\* after the last of four shift steps an item has four operands, where the
\* flattened expression without elimination would have more than six
C25_Witness ==
    /\ pc = "unroll" /\ step = nrDataBits /\ nrDataBits = DeepDataBits /\ nrCrcBits = 2
    /\ \E k \in DOMAIN word : word[k].type = "XOR" /\ Len(heap[word[k].id]) >= 4

\* C26 (Sort key order): two Bits of the same name with indices i < j have
\* sort keys in that order, Bits of different names have their sort keys in
\* the order of the names, and so with OPT_ALL the operands of every item of
\* the returned Word are in ascending order by (name, index).
C26_SortKeyOrder ==
    (pc \in {"generated", "done"} /\ optimize = OPT_ALL) =>
        /\ \A x \in WordBits(heap, word), y \in WordBits(heap, word) :
              NameIndexLess(x, y) => StrLess(sortKey(heap, x), sortKey(heap, y))
        /\ \A k \in DOMAIN word :
              word[k].type = "XOR" =>
                  \A l \in DOMAIN heap[word[k].id], m \in DOMAIN heap[word[k].id] :
                      (l < m /\ heap[word[k].id][l].type = "Bit"
                             /\ heap[word[k].id][m].type = "Bit")
                          => NameIndexLess(heap[word[k].id][l], heap[word[k].id][m])

\* C27 (Normal form under OPT_ALL): every item of the Word returned with
\* OPT_ALL is a Bit, a ConstBit(0), or an XOR whose operands are pairwise
\* different Bits, without nested XOR and without constant; the only other
\* form is an XOR whose single operand is ConstBit(0).
C27_NormalForm ==
    (pc \in {"generated", "done"} /\ optimize = OPT_ALL) =>
        \A k \in DOMAIN word :
            \/ word[k].type = "Bit"
            \/ word[k] = ConstBit(0)
            \/ /\ word[k].type = "XOR"
               /\ LET ops == heap[word[k].id]
                  IN \/ ops = <<ConstBit(0)>>
                     \/ /\ ops # <<>>
                        /\ \A l \in DOMAIN ops : ops[l].type = "Bit" /\ Count(ops, ops[l]) = 1

\* a returned Word with a bare Bit and an XOR of three different Bits
C27_Witness ==
    /\ pc = "generated" /\ optimize = OPT_ALL
    /\ \E k \in DOMAIN word : word[k].type = "Bit"
    /\ \E k \in DOMAIN word : word[k].type = "XOR" /\ Len(heap[word[k].id]) = 3

\* C28 (Leaves of every reachable expression): in every Word that exists
\* during or after generation, with any flag set, every leaf is ConstBit(0),
\* a Bit of the data word with index in 0..nrDataBits-1 or a Bit of the CRC
\* word with index in 0..nrCrcBits-1; ConstBit(1) never occurs.  The same
\* holds for the operands of every XOR object that exists.
C28_Leaves ==
    LET leafOk(x) ==
            \/ x = ConstBit(0)
            \/ x.type = "Bit" /\ x.name = Gen.dataVarName /\ x.index \in 0..(nrDataBits - 1)
            \/ x.type = "Bit" /\ x.name = Gen.crcVarName /\ x.index \in 0..(nrCrcBits - 1)
    IN /\ \A k \in DOMAIN word :
            LET leaves == TreeLeaves(Tree(heap, word[k]))
            IN \A l \in DOMAIN leaves : leafOk(leaves[l])
       /\ \A id \in DOMAIN heap :
            \A l \in DOMAIN heap[id] : heap[id][l].type = "XOR" \/ leafOk(heap[id][l])

\* a Word just built by the second shift step, not yet simplified, holds a
\* shifted-in ConstBit(0), a Bit of the data word and a Bit of the CRC word
C28_Witness ==
    /\ pc = "flatten" /\ itemNr = 0 /\ step = 2 /\ optimize = OPT_NONE
    /\ \E k \in DOMAIN word :
          LET leaves == TreeLeaves(Tree(heap, word[k]))
          IN /\ \E l \in DOMAIN leaves : leaves[l] = ConstBit(0)
             /\ \E l \in DOMAIN leaves : leaves[l] = Bit(Gen.dataVarName, nrDataBits - 1)
             /\ \E l \in DOMAIN leaves : leaves[l] = Bit(Gen.crcVarName, nrCrcBits - 1)

\* C29 (Historical reference agrees with the generalized one): for a CRC
\* width in 8..64, a polynomial and a CRC below 2^width, a data byte and both
\* shift directions, crcgen.CrcReference.crc returns what
\* libcrcgen.CrcReference.crc returns with nrDataBits = 8, a value below
\* 2^width.
C29_ReferencesAgree ==
    pc = "returned" =>
        /\ crcReg = crcgen_CrcReference_crc(prev.crc, prev.data, P, nrCrcBits, shiftRight)
        /\ crcReg = CrcReference_crc(prev.crc, prev.data, P, nrCrcBits, 8, shiftRight)
        /\ crcReg \subseteq Mask(nrCrcBits)

\* the historical reference has taken the byte "1" (0x31) into the CRC-32
\* register 0xFFFFFFFF and returned 0x7C231048
C29_Witness ==
    /\ pc = "returned" /\ entry = "crcgen"
    /\ nrCrcBits = 32 /\ shiftRight /\ P = CRC_PARAMETERS("CRC-32").polynomial
    /\ prev = [crc |-> Mask(32), data |-> {0, 4, 5}]
    /\ crcReg = {3, 6, 12, 16, 17, 21, 26, 27, 28, 29, 30}

\* C30 (poly2int range): whenever poly2int accepts a string for a width n it
\* returns a value below 2^n, so that the check polynomial > (1 << n) - 1 of
\* main cannot fire on it; a coefficient string with the leading term x^n is
\* accepted, never reported, and the leading term is not in the value.
C30_Poly2IntRange ==
    /\ (pc = "int" /\ calls > 0) =>
          /\ P \subseteq Mask(nrCrcBits)
          /\ ~ExceedsMask(P, nrCrcBits)
    /\ (calls = 1 /\ pc \in {"int", "failed"} /\ prev \in CanonicalStrings(nrCrcBits)) =>
          /\ pc = "int"
          /\ \E q \in SUBSET Mask(nrCrcBits) :
                /\ prev = <<120, 94>> \o DecDigits(nrCrcBits) \o CanonicalTail(q, nrCrcBits - 1)
                /\ P = IF shiftRight THEN bitreverse(q, nrCrcBits) ELSE q

\* "x^2 + x + 1" has been converted for width 2: the result is 3, without the
\* term x^2
C30_Witness ==
    /\ pc = "int" /\ calls = 1 /\ nrCrcBits = 2 /\ ~shiftRight
    /\ prev = <<120, 94, 50, 32, 43, 32, 120, 32, 43, 32, 49>>
    /\ P = {0, 1}

====
